---- MODULE Spec2Model ----
(***************************************************************************)
(* Verification model of the cellguard byte-stuffing (COBS) codec:        *)
(*   libraries/cellagent-protocol/src/cobs/encode.rs  (Encoder)           *)
(*   libraries/cellagent-protocol/src/cobs/decode.rs  (Decoder)           *)
(*   libraries/cellagent-protocol/src/cobs.rs         (test drivers)      *)
(* and of the frame layer of the ADS131M08 driver:                        *)
(*   libraries/ads131m08/src/command.rs  (command words)                  *)
(*   libraries/ads131m08/src/frame.rs    (frame builders, CRC)            *)
(*   libraries/ads131m08/src/lib.rs      (the driver and its copies)      *)
(* and of the P3T1755 temperature sensor driver:                          *)
(*   libraries/p3t1755/src/lib.rs        (register access)                *)
(*   libraries/p3t1755/src/alert.rs      (SMBus alert response)           *)
(*   libraries/p3t1755/src/register.rs   (register values)                *)
(* and of the TCA9535 I/O expander driver:                                 *)
(*   libraries/tca9535/src/lib.rs        (register pairs)                  *)
(* Bytes are the integers 0..255; a slice is a sequence; Option<T> is a   *)
(* sequence of length 0 (None) or 1 (Some).                               *)
(***************************************************************************)
EXTENDS Integers, Sequences, FiniteSets, TLC

VARIABLES
    payload,    \* the input slice handed to Encoder::new
    enc,        \* Encoder.state : EncoderState
    pulled,     \* number of Encoder::pull calls made so far
    lastPull,   \* return value of the most recent Encoder::pull
    wire,       \* bytes pulled so far (dest[..pos] of encode_full_slice)
    fed,        \* number of bytes of wire already fed to the decoder
    noise,      \* number of bytes fed to the decoder before the frame
    dstate,     \* Decoder.state : DecoderState
    buf,        \* Decoder.buf, the caller's destination buffer
    pos,        \* Decoder.pos, the destination cursor
    res,        \* return value of the most recent Decoder::feed
    inp,        \* argument of the most recent Decoder::feed
    profile,    \* build profile: debug assertions and overflow checks on or off
    call,       \* the driver function called and its arguments
    frame,      \* the frame built or received, as it travels to the parser
    flip,       \* the bit of frame inverted in transit, if any
    ret,        \* outcome of the most recent driver call
    spi,        \* the SPI device during the most recent ADS131M08 operation
    channels,   \* the caller's array handed to read_adc_data
    p3t,        \* P3t1755.addr and P3t1755.latched_reg
    i2c,        \* the I2C bus and the sensor behind it
    tca         \* Tca9535.addr, and the port registers of the expander

decVars == <<dstate, buf, pos, res, inp>>
cobsVars == <<payload, enc, pulled, lastPull, wire, fed, noise, dstate, buf, pos, res, inp>>
adsVars == <<profile, call, frame, flip, ret>>
busVars == <<spi, channels, p3t, i2c, tca>>
vars == <<payload, enc, pulled, lastPull, wire, fed, noise, dstate, buf, pos, res, inp,
          profile, call, frame, flip, ret, spi, channels, p3t, i2c, tca>>

----------------------------------------------------------------------------
(* Bounds of the model.                                                    *)

\* payloads are concatenations of at most MaxChunks chunks
MaxChunks == 2
\* payloads of the resynchronisation runs: at most MaxResyncChunks chunks
MaxResyncChunks == 1
\* bytes fed to the decoder ahead of the frame in the resynchronisation runs
MaxNoise == 3
\* largest destination buffer of the free-running decoder
MaxCap == 2
\* spare cells of the destination buffer beyond the payload length
MaxSlack == 1
\* Encoder::pull calls made after the encoder has returned None
MaxExtraPulls == 2
\* longest checksum input drawn from CrcBytes
MaxCrcLen == 3

----------------------------------------------------------------------------
(* Values.                                                                 *)

Byte == 0..255
None == <<>>
Some(x) == <<x>>

\* a MaybeUninit<u8> cell that was never written
Uninit == -1
\* no Decoder::feed call has been made yet
NoByte == -1

Min(a, b) == IF a < b THEN a ELSE b

\* the build profiles: debug_assert! is compiled in or out, and arithmetic
\* overflow panics or wraps
Profiles == [debug_assertions : BOOLEAN, overflow_checks : BOOLEAN]

\* a call of an ADS131M08 function with its arguments
AdsCall(fn, addr, n, value, data) ==
    [fn |-> fn, addr |-> addr, n |-> n, value |-> value, data |-> data]
NoAdsCall == AdsCall("none", 0, 0, 0, <<>>)

\* the outcome of a call: a panic, a word, a byte array or slice, or an error
NoRet == [fn |-> "none", panicked |-> FALSE, ok |-> FALSE,
          word |-> <<>>, bytes |-> <<>>, err |-> "none", cause |-> "none"]
RetPanic(fn) == [NoRet EXCEPT !.fn = fn, !.panicked = TRUE]
RetWord(fn, w) == [NoRet EXCEPT !.fn = fn, !.ok = TRUE, !.word = <<w>>]
RetBytes(fn, b) == [NoRet EXCEPT !.fn = fn, !.ok = TRUE, !.bytes = b]
RetErr(fn, e) == [NoRet EXCEPT !.fn = fn, !.err = e]

----------------------------------------------------------------------------
(* Encoder (encode.rs).                                                    *)

MAX_DATA_PER_BLOCK == 255 - 1

MkBlock(data, zero, rest) == [data |-> data, zero |-> zero, rest |-> rest]

\* a split that looks for the zero in, and takes, one byte too many
split_first_block_OneTooMany(b) ==
    LET taken == Min(Len(b), MAX_DATA_PER_BLOCK + 1)
        zeros == {i \in 1..taken : b[i] = 0}
    IN  IF zeros # {}
        THEN LET idx == CHOOSE i \in zeros : \A j \in zeros : i <= j
             IN  MkBlock(SubSeq(b, 1, idx - 1), TRUE, SubSeq(b, idx + 1, Len(b)))
        ELSE LET len == Min(Len(b), MAX_DATA_PER_BLOCK + 1)
             IN  MkBlock(SubSeq(b, 1, len), FALSE, SubSeq(b, len + 1, Len(b)))

\* a split whose full block also swallows the zero that follows it
split_first_block_FullBlockEatsZero(b) ==
    LET taken == Min(Len(b), MAX_DATA_PER_BLOCK + 1)
        zeros == {i \in 1..taken : b[i] = 0}
    IN  IF zeros # {}
        THEN LET idx == CHOOSE i \in zeros : \A j \in zeros : i <= j
             IN  MkBlock(SubSeq(b, 1, idx - 1), TRUE, SubSeq(b, idx + 1, Len(b)))
        ELSE LET len == Min(Len(b), MAX_DATA_PER_BLOCK)
             IN  MkBlock(SubSeq(b, 1, len), FALSE, SubSeq(b, len + 1, Len(b)))

\* a split that passes the zero without recording it
split_first_block_ZeroDropped(b) ==
    LET taken == Min(Len(b), MAX_DATA_PER_BLOCK)
        zeros == {i \in 1..taken : b[i] = 0}
    IN  IF zeros # {}
        THEN LET idx == CHOOSE i \in zeros : \A j \in zeros : i <= j
             IN  MkBlock(SubSeq(b, 1, idx - 1), FALSE, SubSeq(b, idx + 1, Len(b)))
        ELSE LET len == Min(Len(b), MAX_DATA_PER_BLOCK)
             IN  MkBlock(SubSeq(b, 1, len), FALSE, SubSeq(b, len + 1, Len(b)))

\* split_first_block: the first block of buf, whether a zero ended it, the rest
split_first_block(b) ==
    LET taken == Min(Len(b), MAX_DATA_PER_BLOCK)
        zeros == {i \in 1..taken : b[i] = 0}
    IN  IF zeros # {}
        THEN LET idx == CHOOSE i \in zeros : \A j \in zeros : i <= j
             IN  MkBlock(SubSeq(b, 1, idx - 1), TRUE, SubSeq(b, idx + 1, Len(b)))
        ELSE LET len == Min(Len(b), MAX_DATA_PER_BLOCK)
             IN  MkBlock(SubSeq(b, 1, len), FALSE, SubSeq(b, len + 1, Len(b)))

EncStart(data) == [tag |-> "Start", block |-> MkBlock(data, FALSE, <<>>)]
EncBlock(block) == [tag |-> "Block", block |-> block]
EncEnd == [tag |-> "End", block |-> MkBlock(<<>>, FALSE, <<>>)]

EncoderNew(data) == EncStart(data)

\* `as u8`
AsU8(n) == n % 256

\* a pull whose length prefix is the block length, without the + 1
EncoderPull_PrefixNoPlusOne(s) ==
    IF s.tag = "Start" THEN
        LET block == split_first_block(s.block.data)
        IN  [ret |-> Some(AsU8(Len(block.data))), state |-> EncBlock(block)]
    ELSE IF s.tag = "Block" /\ s.block.data = <<>> /\ ~s.block.zero /\ s.block.rest = <<>> THEN
        [ret |-> Some(0), state |-> EncEnd]
    ELSE IF s.tag = "Block" /\ s.block.data = <<>> THEN
        LET block == split_first_block(s.block.rest)
        IN  [ret |-> Some(AsU8(Len(block.data))), state |-> EncBlock(block)]
    ELSE IF s.tag = "Block" THEN
        [ret |-> Some(Head(s.block.data)),
         state |-> EncBlock(MkBlock(Tail(s.block.data), s.block.zero, s.block.rest))]
    ELSE
        [ret |-> None, state |-> EncEnd]

\* a pull that keeps returning the terminator once the input is exhausted
EncoderPull_RepeatTerminator(s) ==
    IF s.tag = "Start" THEN
        LET block == split_first_block(s.block.data)
        IN  [ret |-> Some(AsU8(Len(block.data) + 1)), state |-> EncBlock(block)]
    ELSE IF s.tag = "Block" /\ s.block.data = <<>> /\ ~s.block.zero /\ s.block.rest = <<>> THEN
        [ret |-> Some(0), state |-> EncEnd]
    ELSE IF s.tag = "Block" /\ s.block.data = <<>> THEN
        LET block == split_first_block(s.block.rest)
        IN  [ret |-> Some(AsU8(Len(block.data) + 1)), state |-> EncBlock(block)]
    ELSE IF s.tag = "Block" THEN
        [ret |-> Some(Head(s.block.data)),
         state |-> EncBlock(MkBlock(Tail(s.block.data), s.block.zero, s.block.rest))]
    ELSE
        [ret |-> Some(0), state |-> EncEnd]

\* EncoderState::pull: the returned Option<u8> and the state stored in *self
EncoderPull(s) ==
    IF s.tag = "Start" THEN
        LET block == split_first_block(s.block.data)
        IN  [ret |-> Some(AsU8(Len(block.data) + 1)), state |-> EncBlock(block)]
    ELSE IF s.tag = "Block" /\ s.block.data = <<>> /\ ~s.block.zero /\ s.block.rest = <<>> THEN
        [ret |-> Some(0), state |-> EncEnd]
    ELSE IF s.tag = "Block" /\ s.block.data = <<>> THEN
        LET block == split_first_block(s.block.rest)
        IN  [ret |-> Some(AsU8(Len(block.data) + 1)), state |-> EncBlock(block)]
    ELSE IF s.tag = "Block" THEN
        [ret |-> Some(Head(s.block.data)),
         state |-> EncBlock(MkBlock(Tail(s.block.data), s.block.zero, s.block.rest))]
    ELSE
        [ret |-> None, state |-> EncEnd]

----------------------------------------------------------------------------
(* Decoder (decode.rs).                                                    *)

Idle == [tag |-> "Idle", n |-> 0]
Block(i) == [tag |-> "Block", n |-> i]
PartialBlock(i) == [tag |-> "PartialBlock", n |-> i]

DecoderStateNew == Idle

\* FeedResult
Empty == [tag |-> "Empty", d |-> 0]
DataStart == [tag |-> "DataStart", d |-> 0]
DataComplete == [tag |-> "DataComplete", d |-> 0]
Data(d) == [tag |-> "Data", d |-> d]
Error(e) == [tag |-> e, d |-> 0]

\* Result<Option<usize>, DecodeError>
Ok(v) == [tag |-> "Ok", val |-> v]
Err(e) == [tag |-> e, val |-> None]
NoCall == [tag |-> "NoCall", val |-> None]

\* an Idle arm without the case for the 0xFF length byte
FeedIdle_NoPartialBlock(byte) ==
    IF byte = 0 THEN [ret |-> Empty, state |-> Idle]
    ELSE [ret |-> DataStart, state |-> Block(byte - 1)]

\* DecoderState::feed, arms for Idle (source order)
FeedIdle(byte) ==
    IF byte = 0 THEN [ret |-> Empty, state |-> Idle]
    ELSE IF byte = 255 THEN [ret |-> DataStart, state |-> PartialBlock(254)]
    ELSE [ret |-> DataStart, state |-> Block(byte - 1)]

\* a Block arm that counts down from 0 when the run has ended
FeedBlock_CountsBelowZero(i, byte) ==
    IF i = 0 /\ byte = 0 THEN [ret |-> DataComplete, state |-> Idle]
    ELSE IF byte = 0 THEN [ret |-> Error("InvalidFrame"), state |-> Idle]
    ELSE [ret |-> Data(byte), state |-> Block(i - 1)]

\* a Block arm that appends the length byte instead of the elided zero
FeedBlock_LengthByteAppended(i, byte) ==
    IF i = 0 /\ byte = 0 THEN [ret |-> DataComplete, state |-> Idle]
    ELSE IF i = 0 /\ byte = 255 THEN [ret |-> Data(byte), state |-> PartialBlock(254)]
    ELSE IF i = 0 THEN [ret |-> Data(byte), state |-> Block(byte - 1)]
    ELSE IF byte = 0 THEN [ret |-> Error("InvalidFrame"), state |-> Idle]
    ELSE [ret |-> Data(byte), state |-> Block(i - 1)]

\* DecoderState::feed, arms for Block(i) (source order)
FeedBlock(i, byte) ==
    IF i = 0 /\ byte = 0 THEN [ret |-> DataComplete, state |-> Idle]
    ELSE IF i = 0 /\ byte = 255 THEN [ret |-> Data(0), state |-> PartialBlock(254)]
    ELSE IF i = 0 THEN [ret |-> Data(0), state |-> Block(byte - 1)]
    ELSE IF byte = 0 THEN [ret |-> Error("InvalidFrame"), state |-> Idle]
    ELSE [ret |-> Data(byte), state |-> Block(i - 1)]

\* a PartialBlock arm that re-inserts a zero after a full 254-byte block
FeedPartialBlock_ZeroAfterFullBlock(i, byte) ==
    IF i = 0 /\ byte = 0 THEN [ret |-> DataComplete, state |-> Idle]
    ELSE IF i = 0 /\ byte = 255 THEN [ret |-> Data(0), state |-> PartialBlock(254)]
    ELSE IF i = 0 THEN [ret |-> Data(0), state |-> Block(byte - 1)]
    ELSE IF byte = 0 THEN [ret |-> Error("InvalidFrame"), state |-> Idle]
    ELSE [ret |-> Data(byte), state |-> PartialBlock(i - 1)]

\* DecoderState::feed, arms for PartialBlock(i) (source order)
FeedPartialBlock(i, byte) ==
    IF i = 0 /\ byte = 0 THEN [ret |-> DataComplete, state |-> Idle]
    ELSE IF i = 0 /\ byte = 255 THEN [ret |-> Empty, state |-> PartialBlock(254)]
    ELSE IF i = 0 THEN [ret |-> Empty, state |-> Block(byte - 1)]
    ELSE IF byte = 0 THEN [ret |-> Error("InvalidFrame"), state |-> Idle]
    ELSE [ret |-> Data(byte), state |-> PartialBlock(i - 1)]

\* DecoderState::feed: the FeedResult and the state stored in *self
DecoderStateFeed(s, byte) ==
    IF s.tag = "Idle" THEN FeedIdle(byte)
    ELSE IF s.tag = "Block" THEN FeedBlock(s.n, byte)
    ELSE FeedPartialBlock(s.n, byte)

\* a feed that does not rewind the cursor at the start of a frame
DecoderFeed_NoRewind(s, b, p, byte) ==
    LET r == DecoderStateFeed(s, byte)
    IN  IF r.ret.tag = "Empty" THEN
            [state |-> r.state, buf |-> b, pos |-> p, res |-> Ok(Some(0))]
        ELSE IF r.ret.tag = "DataStart" THEN
            [state |-> r.state, buf |-> b, pos |-> p, res |-> Ok(None)]
        ELSE IF r.ret.tag = "DataComplete" THEN
            [state |-> r.state, buf |-> b, pos |-> p, res |-> Ok(Some(p))]
        ELSE IF r.ret.tag = "Data" THEN
            IF p < Len(b)
            THEN [state |-> r.state, buf |-> [b EXCEPT ![p + 1] = r.ret.d],
                  pos |-> p + 1, res |-> Ok(None)]
            ELSE [state |-> r.state, buf |-> b, pos |-> p, res |-> Err("BufferTooSmall")]
        ELSE
            [state |-> r.state, buf |-> b, pos |-> p, res |-> Err(r.ret.tag)]

\* a feed whose capacity test is off by one (pos <= buf.len())
DecoderFeed_BoundOffByOne(s, b, p, byte) ==
    LET r == DecoderStateFeed(s, byte)
    IN  IF r.ret.tag = "Empty" THEN
            [state |-> r.state, buf |-> b, pos |-> p, res |-> Ok(Some(0))]
        ELSE IF r.ret.tag = "DataStart" THEN
            [state |-> r.state, buf |-> b, pos |-> 0, res |-> Ok(None)]
        ELSE IF r.ret.tag = "DataComplete" THEN
            [state |-> r.state, buf |-> b, pos |-> p, res |-> Ok(Some(p))]
        ELSE IF r.ret.tag = "Data" THEN
            IF p <= Len(b)
            THEN [state |-> r.state,
                  buf |-> [i \in 1..Len(b) |-> IF i = p + 1 THEN r.ret.d ELSE b[i]],
                  pos |-> p + 1, res |-> Ok(None)]
            ELSE [state |-> r.state, buf |-> b, pos |-> p, res |-> Err("BufferTooSmall")]
        ELSE
            [state |-> r.state, buf |-> b, pos |-> p, res |-> Err(r.ret.tag)]

\* Decoder::feed on the decoder (state, buf, pos): the new fields and the result
DecoderFeed(s, b, p, byte) ==
    LET r == DecoderStateFeed(s, byte)
    IN  IF r.ret.tag = "Empty" THEN
            [state |-> r.state, buf |-> b, pos |-> p, res |-> Ok(Some(0))]
        ELSE IF r.ret.tag = "DataStart" THEN
            [state |-> r.state, buf |-> b, pos |-> 0, res |-> Ok(None)]
        ELSE IF r.ret.tag = "DataComplete" THEN
            [state |-> r.state, buf |-> b, pos |-> p, res |-> Ok(Some(p))]
        ELSE IF r.ret.tag = "Data" THEN
            IF p < Len(b)
            THEN [state |-> r.state, buf |-> [b EXCEPT ![p + 1] = r.ret.d],
                  pos |-> p + 1, res |-> Ok(None)]
            ELSE [state |-> r.state, buf |-> b, pos |-> p, res |-> Err("BufferTooSmall")]
        ELSE
            [state |-> r.state, buf |-> b, pos |-> p, res |-> Err(r.ret.tag)]

\* Decoder::new_uninit
NewBuf(cap) == [i \in 1..cap |-> Uninit]

\* Decoder::data
DecoderData == SubSeq(buf, 1, pos)

----------------------------------------------------------------------------
(* ADS131M08: integers as machine words.                                   *)

RECURSIVE And(_, _)
\* a & b, four bits at a time where either operand has four zero bits
And(a, b) ==
    IF a = 0 \/ b = 0 THEN 0
    ELSE IF a % 16 = 0 \/ b % 16 = 0 THEN 16 * And(a \div 16, b \div 16)
    ELSE (a % 2) * (b % 2) + 2 * And(a \div 2, b \div 2)

RECURSIVE Or(_, _)
\* a | b, four bits at a time where either operand has four zero bits
Or(a, b) ==
    IF a = 0 THEN b
    ELSE IF b = 0 THEN a
    ELSE IF a % 16 = 0 THEN (b % 16) + 16 * Or(a \div 16, b \div 16)
    ELSE IF b % 16 = 0 THEN (a % 16) + 16 * Or(a \div 16, b \div 16)
    ELSE (IF a % 2 = 1 \/ b % 2 = 1 THEN 1 ELSE 0) + 2 * Or(a \div 2, b \div 2)

RECURSIVE Xor(_, _)
\* a ^ b, four bits at a time where either operand has four zero bits
Xor(a, b) ==
    IF a = 0 THEN b
    ELSE IF b = 0 THEN a
    ELSE IF a % 16 = 0 THEN (b % 16) + 16 * Xor(a \div 16, b \div 16)
    ELSE IF b % 16 = 0 THEN (a % 16) + 16 * Xor(a \div 16, b \div 16)
    ELSE ((a + b) % 2) + 2 * Xor(a \div 2, b \div 2)

\* (x << k) on a u16: the bits shifted past bit 15 are dropped
Shl16(x, k) == (x * (2 ^ k)) % 65536

\* (x - y) on a u16 when overflow checks are off
WrappingSub16(x, y) == (x - y + 65536) % 65536

\* u16::to_be_bytes and u16::from_be_bytes
to_be_bytes(word) == <<word \div 256, word % 256>>
from_be_bytes(bytes) == bytes[1] * 256 + bytes[2]

----------------------------------------------------------------------------
(* ADS131M08 command words (command.rs).                                   *)

NULL == 0
RESET == 17
STANDBY == 34
WAKEUP == 51
LOCK == 1365
UNLOCK == 1638
RREG == 40960
WREG == 24576

ADDR_BITS == 7
N_BITS == 6

\* the outcome of a call that returns a u16, or panics
Panic == [panicked |-> TRUE, word |-> None]
Word(w) == [panicked |-> FALSE, word |-> Some(w)]

\* xreg with the address shifted past the address field
xreg_ShiftByAddrBits(p, cmd, addr, n) ==
    IF p.debug_assertions /\ ~(addr < 2 ^ ADDR_BITS) THEN Panic
    ELSE IF p.overflow_checks /\ n < 1 THEN Panic
    ELSE IF p.debug_assertions /\ ~(WrappingSub16(n, 1) < 2 ^ N_BITS) THEN Panic
    ELSE Word(Or(Or(cmd, Shl16(addr, ADDR_BITS)), WrappingSub16(n, 1)))

\* xreg: the command word, or a panic; debug_assert! is compiled only with
\* debug assertions, and n - 1 panics on underflow only with overflow checks
xreg(p, cmd, addr, n) ==
    IF p.debug_assertions /\ ~(addr < 2 ^ ADDR_BITS) THEN Panic
    ELSE IF p.overflow_checks /\ n < 1 THEN Panic
    ELSE IF p.debug_assertions /\ ~(WrappingSub16(n, 1) < 2 ^ N_BITS) THEN Panic
    ELSE Word(Or(Or(cmd, Shl16(addr, N_BITS)), WrappingSub16(n, 1)))

rreg(p, addr, n) == xreg(p, RREG, addr, n)

wreg(p, addr, n) == xreg(p, WREG, addr, n)

----------------------------------------------------------------------------
(* ADS131M08 frames: the driver's functions (lib.rs).                      *)

ENABLE_INPUT_CRC == TRUE
BYTES_PER_WORD == 3

POLY == 4129

RECURSIVE crc16_bits(_, _)
\* the inner loop of crc16_ccitt_const, from bit_idx on
crc16_bits(crc, bit_idx) ==
    IF bit_idx < 8
    THEN IF And(crc, 32768) # 0
         THEN crc16_bits(Xor(Shl16(crc, 1), POLY), bit_idx + 1)
         ELSE crc16_bits(Shl16(crc, 1), bit_idx + 1)
    ELSE crc

RECURSIVE crc16_bytes(_, _, _)
\* the outer loop of crc16_ccitt_const, from byte_idx on; crc is a u16
crc16_bytes(crc, data, byte_idx) ==
    IF crc \in 0..65535 /\ byte_idx < Len(data)
    THEN crc16_bytes(crc16_bits(Xor(crc, Shl16(data[byte_idx + 1], 8)), 0),
                     data, byte_idx + 1)
    ELSE crc

\* a checksum that starts from 0 instead of 0xFFFF
crc16_ccitt_const_InitZero(data) == crc16_bytes(0, data, 0)

\* a checksum that leaves out the first byte
crc16_ccitt_const_SkipFirst(data) == crc16_bytes(65535, data, 1)

\* crc16_ccitt_const (lib.rs)
crc16_ccitt_const(data) == crc16_bytes(65535, data, 0)

\* the outcome of a call that fills a buffer, or panics
BufPanic == [panicked |-> TRUE, buf |-> <<>>]
Buf(b) == [panicked |-> FALSE, buf |-> b]

\* [0; len]
Zeroed(len) == [i \in 1..len |-> 0]

\* write_word_const that stores the word low byte first
write_word_const_LittleEndian(b, word_idx, word) ==
    IF Len(b) < (word_idx + 1) * BYTES_PER_WORD THEN BufPanic
    ELSE LET word_bytes == to_be_bytes(word)
             buf_offset == word_idx * BYTES_PER_WORD
         IN  Buf([i \in 1..Len(b) |->
                    IF i = buf_offset + 1 THEN word_bytes[2]
                    ELSE IF i = buf_offset + 2 THEN word_bytes[1]
                    ELSE IF i = buf_offset + 3 /\ BYTES_PER_WORD > 2 THEN 0
                    ELSE IF i = buf_offset + 4 /\ BYTES_PER_WORD > 3 THEN 0
                    ELSE b[i]])

\* write_word_const (lib.rs): a slot too short fails the assertion or, without
\* it, the bounds check of the first store
write_word_const(b, word_idx, word) ==
    IF Len(b) < (word_idx + 1) * BYTES_PER_WORD THEN BufPanic
    ELSE LET word_bytes == to_be_bytes(word)
             buf_offset == word_idx * BYTES_PER_WORD
         IN  Buf([i \in 1..Len(b) |->
                    IF i = buf_offset + 1 THEN word_bytes[1]
                    ELSE IF i = buf_offset + 2 THEN word_bytes[2]
                    ELSE IF i = buf_offset + 3 /\ BYTES_PER_WORD > 2 THEN 0
                    ELSE IF i = buf_offset + 4 /\ BYTES_PER_WORD > 3 THEN 0
                    ELSE b[i]])

RECURSIVE write_words(_, _, _)
\* the word loop of write_command_const, from word_idx on
write_words(b, words, word_idx) ==
    IF word_idx < Len(words)
    THEN LET r == write_word_const(b, word_idx, words[word_idx + 1])
         IN  IF r.panicked THEN r ELSE write_words(r.buf, words, word_idx + 1)
    ELSE Buf(b)

\* write_command_const (lib.rs)
write_command_const(p, b, words) ==
    LET expected_len == (Len(words) + (IF ENABLE_INPUT_CRC THEN 1 ELSE 0)) * BYTES_PER_WORD
        w == write_words(b, words, 0)
        data_len == Len(words) * BYTES_PER_WORD
    IN  IF p.debug_assertions /\ Len(b) # expected_len THEN BufPanic
        ELSE IF w.panicked \/ ~ENABLE_INPUT_CRC THEN w
        ELSE IF data_len > Len(w.buf) THEN BufPanic
        ELSE LET data == SubSeq(w.buf, 1, data_len)
                 remaining == SubSeq(w.buf, data_len + 1, Len(w.buf))
                 r == write_word_const(remaining, 0, crc16_ccitt_const(data))
             IN  IF r.panicked THEN r ELSE Buf(data \o r.buf)

SHORT_FRAME_WORDS == 1 + (IF ENABLE_INPUT_CRC THEN 1 ELSE 0)
SHORT_FRAME_BYTES == SHORT_FRAME_WORDS * BYTES_PER_WORD

\* build_short_frame (lib.rs)
build_short_frame(p, command) ==
    write_command_const(p, Zeroed(SHORT_FRAME_BYTES), <<command>>)

\* the outcome of get_verified_data
VerifyPanic == [panicked |-> TRUE, ok |-> FALSE, data |-> <<>>, err |-> "none"]
VerifyOk(data) == [panicked |-> FALSE, ok |-> TRUE, data |-> data, err |-> "none"]
VerifyErr(e) == [panicked |-> FALSE, ok |-> FALSE, data |-> <<>>, err |-> e]

\* get_verified_data that reads the received checksum low byte first
get_verified_data_LittleEndian(b) ==
    IF Len(b) < BYTES_PER_WORD THEN VerifyPanic
    ELSE LET data == SubSeq(b, 1, Len(b) - BYTES_PER_WORD)
             crc_word == SubSeq(b, Len(b) - BYTES_PER_WORD + 1, Len(b))
             received_crc == from_be_bytes(<<crc_word[2], crc_word[1]>>)
             calculated_crc == crc16_ccitt_const(data)
         IN  IF received_crc = calculated_crc
             THEN VerifyOk(data)
             ELSE VerifyErr("CrcMismatch")

\* get_verified_data (lib.rs): a buffer shorter than one word panics, in
\* the subtraction or in split_at
get_verified_data(b) ==
    IF Len(b) < BYTES_PER_WORD THEN VerifyPanic
    ELSE LET data == SubSeq(b, 1, Len(b) - BYTES_PER_WORD)
             crc_word == SubSeq(b, Len(b) - BYTES_PER_WORD + 1, Len(b))
             received_crc == from_be_bytes(<<crc_word[1], crc_word[2]>>)
             calculated_crc == crc16_ccitt_const(data)
         IN  IF received_crc = calculated_crc
             THEN VerifyOk(data)
             ELSE VerifyErr("CrcMismatch")

----------------------------------------------------------------------------
(* ADS131M08 frames: the frame module (frame.rs).                          *)

frame_POLY == 4129

RECURSIVE frame_crc16_bytes(_, _, _)
RECURSIVE frame_crc16_bits(_, _, _, _)
\* the inner loop of frame.rs crc16_ccitt_const, and then the rest of the
\* outer loop
frame_crc16_bits(crc, data, byte_idx, bit_idx) ==
    IF bit_idx < 8
    THEN IF And(crc, 32768) # 0
         THEN frame_crc16_bits(Xor(Shl16(crc, 1), frame_POLY), data, byte_idx, bit_idx + 1)
         ELSE frame_crc16_bits(Shl16(crc, 1), data, byte_idx, bit_idx + 1)
    ELSE frame_crc16_bytes(crc, data, byte_idx + 1)

\* the outer loop of frame.rs crc16_ccitt_const, from byte_idx on
frame_crc16_bytes(crc, data, byte_idx) ==
    IF byte_idx < Len(data)
    THEN frame_crc16_bits(Xor(crc, Shl16(data[byte_idx + 1], 8)), data, byte_idx, 0)
    ELSE crc

\* crc16_ccitt_const (frame.rs)
frame_crc16_ccitt_const(data) == frame_crc16_bytes(65535, data, 0)

\* write_word_const (frame.rs)
frame_write_word_const(b, word_idx, word) ==
    IF Len(b) < (word_idx + 1) * BYTES_PER_WORD THEN BufPanic
    ELSE LET word_bytes == to_be_bytes(word)
             buf_offset == word_idx * BYTES_PER_WORD
         IN  Buf([i \in 1..Len(b) |->
                    IF i = buf_offset + 1 THEN word_bytes[1]
                    ELSE IF i = buf_offset + 2 THEN word_bytes[2]
                    ELSE IF i = buf_offset + 3 /\ BYTES_PER_WORD > 2 THEN 0
                    ELSE IF i = buf_offset + 4 /\ BYTES_PER_WORD > 3 THEN 0
                    ELSE b[i]])

RECURSIVE frame_write_words(_, _, _)
frame_write_words(b, words, word_idx) ==
    IF word_idx < Len(words)
    THEN LET r == frame_write_word_const(b, word_idx, words[word_idx + 1])
         IN  IF r.panicked THEN r ELSE frame_write_words(r.buf, words, word_idx + 1)
    ELSE Buf(b)

\* write_command_const (frame.rs)
frame_write_command_const(p, b, words) ==
    LET expected_len == (Len(words) + (IF ENABLE_INPUT_CRC THEN 1 ELSE 0)) * BYTES_PER_WORD
        w == frame_write_words(b, words, 0)
        data_len == Len(words) * BYTES_PER_WORD
    IN  IF p.debug_assertions /\ Len(b) # expected_len THEN BufPanic
        ELSE IF w.panicked \/ ~ENABLE_INPUT_CRC THEN w
        ELSE IF data_len > Len(w.buf) THEN BufPanic
        ELSE LET data == SubSeq(w.buf, 1, data_len)
                 remaining == SubSeq(w.buf, data_len + 1, Len(w.buf))
                 r == frame_write_word_const(remaining, 0, frame_crc16_ccitt_const(data))
             IN  IF r.panicked THEN r ELSE Buf(data \o r.buf)

SHORT_WORDS == 1 + (IF ENABLE_INPUT_CRC THEN 1 ELSE 0)
SHORT_BYTES == SHORT_WORDS * BYTES_PER_WORD

\* build_short (frame.rs)
build_short(p, command) ==
    frame_write_command_const(p, Zeroed(SHORT_BYTES), <<command>>)

WRITE_ONE_WORDS == 2 + (IF ENABLE_INPUT_CRC THEN 1 ELSE 0)
WRITE_ONE_BYTES == WRITE_ONE_WORDS * BYTES_PER_WORD

\* build_write_one (frame.rs): the panic of wreg is the panic of the builder
build_write_one(p, addr, value) ==
    LET w == wreg(p, addr, 1)
    IN  IF w.panicked THEN BufPanic
        ELSE frame_write_command_const(p, Zeroed(WRITE_ONE_BYTES), <<w.word[1], value>>)

\* get_verified_data (frame.rs)
frame_get_verified_data(b) ==
    IF Len(b) < BYTES_PER_WORD THEN VerifyPanic
    ELSE LET data == SubSeq(b, 1, Len(b) - BYTES_PER_WORD)
             crc_word == SubSeq(b, Len(b) - BYTES_PER_WORD + 1, Len(b))
             received_crc == from_be_bytes(<<crc_word[1], crc_word[2]>>)
             calculated_crc == frame_crc16_ccitt_const(data)
         IN  IF received_crc = calculated_crc
             THEN VerifyOk(data)
             ELSE VerifyErr("CrcMismatch")

----------------------------------------------------------------------------
(* ADS131M08 driver operations (lib.rs).                                   *)

CHANNELS == 8

NORMAL_FRAME_WORDS == 1 + CHANNELS + 1
NORMAL_FRAME_BYTES == NORMAL_FRAME_WORDS * BYTES_PER_WORD

\* build_normal_frame (lib.rs): one command word in a full-width buffer
build_normal_frame(p, command) ==
    write_command_const(p, Zeroed(NORMAL_FRAME_BYTES), <<command>>)

NORMAL_WORDS == 1 + CHANNELS + 1
NORMAL_BYTES == NORMAL_WORDS * BYTES_PER_WORD

\* build_normal (frame.rs): one command word in a full-width buffer
build_normal(p, command) ==
    frame_write_command_const(p, Zeroed(NORMAL_BYTES), <<command>>)

\* one call of the SPI device: spi.write(bytes) or spi.transfer_in_place(bytes)
SpiCall(op, bytes) == [op |-> op, bytes |-> bytes]

\* what the SPI device does with the next call: its result ("Ok" or the
\* error it returns) and the bytes a full-duplex transfer puts in the buffer
SpiEnv(result, response) == [result |-> result, response |-> response]

\* the state of an operation when it returns: its result, the SPI calls it
\* has made, the caller's channel array
Done(r, log, chans) == [ret |-> r, log |-> log, channels |-> chans]

\* an operation that stops in todo!() or in a failed assertion
RetTodo(fn) == RetPanic(fn)

\* Ok(()), Err(Error::spi(e)) and Err(Error::from(kind))
RetUnit(fn) == [NoRet EXCEPT !.fn = fn, !.ok = TRUE]
RetSpi(fn, e) == [NoRet EXCEPT !.fn = fn, !.err = "Spi", !.cause = e]
RetKind(fn, kind) == [NoRet EXCEPT !.fn = fn, !.err = kind]

\* an operation that writes one frame and returns: the body shared by
\* reset_device_start, standby and wakeup
WriteFrame(fn, b, env, chans) ==
    IF b.panicked THEN Done(RetPanic(fn), <<>>, chans)
    ELSE LET log == <<SpiCall("write", b.buf)>>
         IN  IF env.result # "Ok"
             THEN Done(RetSpi(fn, env.result), log, chans)
             ELSE Done(RetUnit(fn), log, chans)

\* reset_device_start
reset_device_start(p, env, chans) ==
    WriteFrame("reset_device_start", build_normal_frame(p, RESET), env, chans)

\* reset_device_complete: the code after the transfer is todo!()
reset_device_complete(p, env, chans) ==
    LET b == build_short_frame(p, NULL)
    IN  IF b.panicked THEN Done(RetPanic("reset_device_complete"), <<>>, chans)
        ELSE LET log == <<SpiCall("transfer_in_place", b.buf)>>
             IN  IF env.result # "Ok"
                 THEN Done(RetSpi("reset_device_complete", env.result), log, chans)
                 ELSE Done(RetTodo("reset_device_complete"), log, chans)

\* lock_registers: todo!()
lock_registers(p, env, chans) == Done(RetTodo("lock_registers"), <<>>, chans)

\* unlock_registers: todo!()
unlock_registers(p, env, chans) == Done(RetTodo("unlock_registers"), <<>>, chans)

\* standby that repeats the write after a transport error
standby_RetryWrite(p, env, chans) ==
    LET b == build_short_frame(p, STANDBY)
        r == WriteFrame("standby", b, env, chans)
    IN  IF r.ret.err = "Spi"
        THEN Done(r.ret, r.log \o <<SpiCall("write", b.buf)>>, chans)
        ELSE r

\* standby
standby(p, env, chans) ==
    WriteFrame("standby", build_short_frame(p, STANDBY), env, chans)

\* wakeup that reads the response back with a full-duplex transfer
wakeup_ReadBack(p, env, chans) ==
    LET b == build_short_frame(p, WAKEUP)
        r == WriteFrame("wakeup", b, env, chans)
    IN  IF r.ret.ok
        THEN Done(r.ret, r.log \o <<SpiCall("transfer_in_place", b.buf)>>, chans)
        ELSE r

\* wakeup
wakeup(p, env, chans) ==
    WriteFrame("wakeup", build_short_frame(p, WAKEUP), env, chans)

\* read_single_register: todo!()
read_single_register(p, env, chans) ==
    Done(RetTodo("read_single_register"), <<>>, chans)

\* a register write: the write-one frame is sent, then the register is read
\* back with read_single_register and compared with the value written
write_single_register(p, addr, value, env, chans) ==
    LET fn == "write_single_register"
        b == build_write_one(p, addr, value)
    IN  IF b.panicked THEN Done(RetPanic(fn), <<>>, chans)
        ELSE LET log == <<SpiCall("write", b.buf)>>
                 r == read_single_register(p, env, chans)
             IN  IF env.result # "Ok" THEN Done(RetSpi(fn, env.result), log, chans)
                 ELSE IF r.ret.panicked THEN Done(RetPanic(fn), log \o r.log, chans)
                 ELSE IF r.ret.err # "none"
                 THEN Done([r.ret EXCEPT !.fn = fn], log \o r.log, chans)
                 ELSE IF r.ret.word = Some(value)
                 THEN Done(RetUnit(fn), log \o r.log, chans)
                 ELSE Done(RetKind(fn, "WriteError"), log \o r.log, chans)

\* i32::from_be_bytes(value) >> shift, >> being the arithmetic shift
i32_from_be_bytes(value) ==
    LET sign == IF value[1] >= 128 THEN value[1] - 256 ELSE value[1]
    IN  ((sign * 256 + value[2]) * 256 + value[3]) * 256 + value[4]
Shr(x, shift) == x \div (2 ^ shift)

\* a channel word read as an unsigned number
channel_value_Unsigned(word) ==
    LET value == [i \in 1..4 |-> IF i <= BYTES_PER_WORD THEN word[i] ELSE 0]
    IN  Shr(i32_from_be_bytes(<<0>> \o value) , (4 - BYTES_PER_WORD) * 8) * 256
            + value[BYTES_PER_WORD]

\* the closure of read_adc_data: a channel word as a sign-extended i32
channel_value(word) ==
    LET value == [i \in 1..4 |-> IF i <= BYTES_PER_WORD THEN word[i] ELSE 0]
    IN  Shr(i32_from_be_bytes(value), (4 - BYTES_PER_WORD) * 8)

\* channel_words.chunks_exact(BYTES_PER_WORD)
chunks_exact(bytes, size) ==
    [k \in 1..(Len(bytes) \div size) |-> SubSeq(bytes, (k - 1) * size + 1, k * size)]

\* channels.iter_mut().zip(values).for_each(|(channel, value)| *channel = value)
zip_assign(chans, values) ==
    [i \in 1..Len(chans) |-> IF i <= Len(values) THEN values[i] ELSE chans[i]]

\* read_adc_data that stores the channel values before it looks at the
\* result of the checksum
read_adc_data_StoreThenVerify(p, env, chans) ==
    LET b == write_command_const(p, Zeroed(NORMAL_FRAME_WORDS * BYTES_PER_WORD), <<NULL>>)
    IN  IF b.panicked THEN Done(RetPanic("read_adc_data"), <<>>, chans)
        ELSE LET log == <<SpiCall("transfer_in_place", b.buf)>>
                 v == get_verified_data(env.response)
             IN  IF env.result # "Ok"
                 THEN Done(RetSpi("read_adc_data", env.result), log, chans)
                 ELSE IF v.panicked THEN Done(RetPanic("read_adc_data"), log, chans)
                 ELSE LET data == SubSeq(env.response, 1, Len(env.response) - BYTES_PER_WORD)
                          channel_words == SubSeq(data, BYTES_PER_WORD + 1, Len(data))
                          words == chunks_exact(channel_words, BYTES_PER_WORD)
                          values == [k \in 1..Len(words) |-> channel_value(words[k])]
                      IN  IF ~v.ok
                          THEN Done(RetKind("read_adc_data", v.err), log,
                                    zip_assign(chans, values))
                          ELSE Done(RetUnit("read_adc_data"), log, zip_assign(chans, values))

\* read_adc_data
read_adc_data(p, env, chans) ==
    LET b == write_command_const(p, Zeroed(NORMAL_FRAME_WORDS * BYTES_PER_WORD), <<NULL>>)
    IN  IF b.panicked THEN Done(RetPanic("read_adc_data"), <<>>, chans)
        ELSE LET log == <<SpiCall("transfer_in_place", b.buf)>>
                 v == get_verified_data(env.response)
             IN  IF env.result # "Ok"
                 THEN Done(RetSpi("read_adc_data", env.result), log, chans)
                 ELSE IF v.panicked THEN Done(RetPanic("read_adc_data"), log, chans)
                 ELSE IF ~v.ok THEN Done(RetKind("read_adc_data", v.err), log, chans)
                 ELSE IF Len(v.data) < BYTES_PER_WORD
                 THEN Done(RetPanic("read_adc_data"), log, chans)
                 ELSE LET channel_words == SubSeq(v.data, BYTES_PER_WORD + 1, Len(v.data))
                          words == chunks_exact(channel_words, BYTES_PER_WORD)
                          values == [k \in 1..Len(words) |-> channel_value(words[k])]
                      IN  Done(RetUnit("read_adc_data"), log, zip_assign(chans, values))

----------------------------------------------------------------------------
(* P3T1755: addresses, registers and register values.                      *)

\* Address::RANGE (address.rs): the addresses 0x40 .. 0x5F
Address_RANGE_start == 64
Address_RANGE_end == 96

\* Address::new
Address_new(value) ==
    IF value >= Address_RANGE_start /\ value < Address_RANGE_end
    THEN Some(value) ELSE None

\* the register addresses (register.rs) and Register::get
TEMP_REG == 0
CONF_REG == 1
T_LOW_REG == 2
T_HIGH_REG == 3
Register == {TEMP_REG, CONF_REG, T_LOW_REG, T_HIGH_REG}

\* Config::from_reg and Config::to_reg: the register byte is the value
Config_from_reg(value) == value
Config_to_reg(config) == config

\* the bits of the configuration register (register.rs, Config)
SD_BIT == 1
TM_BIT == 2
POL_BIT == 4
OS_BIT == 128
FaultQueue_MASK == 24
ConversionTime_MASK == 96

\* !x on u8
Not8(x) == 255 - x

\* Config::bit
Config_bit(config, bit) == And(config, bit) # 0

\* with_bit that never clears the bit
Config_with_bit_NeverClears(config, bit, enable) ==
    IF enable THEN Or(config, bit) ELSE config

\* Config::with_bit
Config_with_bit(config, bit, enable) ==
    IF enable THEN Or(config, bit) ELSE And(config, Not8(bit))

\* FaultQueue::from_reg and ConversionTime::from_reg: a variant is the value
\* of its bits
FaultQueue_from_reg(value) == And(value, FaultQueue_MASK)
ConversionTime_from_reg(value) == And(value, ConversionTime_MASK)

\* Config::with_fault_queue and Config::with_conversion_time
Config_with_fault_queue(config, fq) == Or(And(config, Not8(FaultQueue_MASK)), fq)
Config_with_conversion_time(config, ct) == Or(And(config, Not8(ConversionTime_MASK)), ct)

\* the getter and the setter of each field of Config
Config_get(config, field) ==
    CASE field = "shutdown_mode" -> Config_bit(config, SD_BIT)
      [] field = "thermostat_mode" -> Config_bit(config, TM_BIT)
      [] field = "polarity" -> Config_bit(config, POL_BIT)
      [] field = "one_shot" -> Config_bit(config, OS_BIT)
      [] field = "fault_queue" -> FaultQueue_from_reg(config)
      [] field = "conversion_time" -> ConversionTime_from_reg(config)
Config_with(config, field, value) ==
    CASE field = "shutdown_mode" -> Config_with_bit(config, SD_BIT, value)
      [] field = "thermostat_mode" -> Config_with_bit(config, TM_BIT, value)
      [] field = "polarity" -> Config_with_bit(config, POL_BIT, value)
      [] field = "one_shot" -> Config_with_bit(config, OS_BIT, value)
      [] field = "fault_queue" -> Config_with_fault_queue(config, value)
      [] field = "conversion_time" -> Config_with_conversion_time(config, value)

\* i16 as the integers -2^15 .. 2^15 - 1
i16_wrap(x) ==
    LET u == x % (2 ^ 16) IN IF u >= 2 ^ 15 THEN u - 2 ^ 16 ELSE u
i16_from_be_bytes(regs) == i16_wrap(regs[1] * 256 + regs[2])
i16_to_be_bytes(x) ==
    LET u == x % (2 ^ 16) IN <<u \div 256, u % 256>>
\* x << shift on i16: the bits shifted out are lost
i16_shl(x, shift) == i16_wrap(x * (2 ^ shift))

\* Temperature::MIN and Temperature::MAX, in 1/16 degrees Celsius
Temperature_MIN == -2048
Temperature_MAX == 2047

\* Temperature::from_regs with a logical shift of the register word
Temperature_from_regs_LogicalShift(regs) ==
    Shr(i16_from_be_bytes(regs) % (2 ^ 16), 4)

\* Temperature::from_regs
Temperature_from_regs(regs) == Shr(i16_from_be_bytes(regs), 4)

\* Temperature::to_regs
Temperature_to_regs(raw) == i16_to_be_bytes(i16_shl(raw, 4))

\* x / y on signed integers, y > 0: the quotient rounded toward zero
TruncDiv(x, y) == IF x >= 0 THEN x \div y ELSE -((-x) \div y)

\* x as i8
i8_wrap(x) ==
    LET u == x % (2 ^ 8) IN IF u >= 2 ^ 7 THEN u - 2 ^ 8 ELSE u

\* Temperature::from_raw
Temperature_from_raw(raw) ==
    IF raw < Temperature_MIN \/ raw > Temperature_MAX THEN None ELSE Some(raw)

\* saturating_from_raw without the lower limit
Temperature_saturating_from_raw_NoLowerLimit(raw) ==
    IF raw > Temperature_MAX THEN Temperature_MAX ELSE raw

\* Temperature::saturating_from_raw
Temperature_saturating_from_raw(raw) ==
    IF raw < Temperature_MIN THEN Temperature_MIN
    ELSE IF raw > Temperature_MAX THEN Temperature_MAX
    ELSE raw

\* Temperature::from_degrees_celsius
Temperature_from_degrees_celsius(deg_c) == i16_shl(deg_c, 4)

\* from_centi_degrees_celsius that multiplies in i16
Temperature_from_centi_degrees_celsius_I16(centi_deg_c) ==
    LET raw == TruncDiv(i16_wrap(centi_deg_c * 16), 100)
    IN  Temperature_saturating_from_raw(i16_wrap(raw))

\* Temperature::from_centi_degrees_celsius: the product is an i32
Temperature_from_centi_degrees_celsius(centi_deg_c) ==
    LET raw == TruncDiv(centi_deg_c * 16, 100)
    IN  Temperature_saturating_from_raw(i16_wrap(raw))

\* Temperature::degrees_celsius
Temperature_degrees_celsius(raw) == i8_wrap(Shr(raw, 4))

\* Temperature::centi_degrees_celsius: the product is an i32
Temperature_centi_degrees_celsius(raw) ==
    LET centi_deg_c == TruncDiv(raw * 625, 100)
    IN  i16_wrap(centi_deg_c)

----------------------------------------------------------------------------
(* P3T1755: register access (lib.rs) and alert response (alert.rs).        *)

\* the driver's fields addr and latched_reg
P3t1755_new(addr) == [addr |-> addr, latched_reg |-> None]

\* Operation::Write(bytes) and Operation::Read(buf) with buf.len() = len
OperationWrite(bytes) == [kind |-> "Write", bytes |-> bytes, len |-> Len(bytes)]
OperationRead(len) == [kind |-> "Read", bytes |-> <<>>, len |-> len]

\* what the bus does with the next transaction: its result ("Ok" or the
\* kind of the error), the number of operations carried out before an
\* error, and the bytes a read puts in the buffer
I2cEnv(result, done, data) == [result |-> result, done |-> done, data |-> data]

\* a register access when it returns: the driver, the transaction it has
\* made, and Ok with the buffer or Err with the error of the bus
Access(d, ops, env) ==
    [p3t |-> d, addr |-> d.addr, ops |-> ops,
     ok |-> env.result = "Ok",
     err |-> IF env.result = "Ok" THEN "none" ELSE env.result,
     buf |-> IF env.result = "Ok" THEN env.data ELSE <<>>]

\* read_register that latches the register although the transaction failed
read_register_LatchOnError(d, reg, len, env) ==
    LET operations == IF d.latched_reg = Some(reg)
                      THEN <<OperationRead(len)>>
                      ELSE <<OperationWrite(<<reg>>), OperationRead(len)>>
    IN  [Access(d, operations, env) EXCEPT !.p3t.latched_reg = Some(reg)]

\* read_register
read_register(d, reg, len, env) ==
    LET operations == IF d.latched_reg = Some(reg)
                      THEN <<OperationRead(len)>>
                      ELSE <<OperationWrite(<<reg>>), OperationRead(len)>>
        a == Access(d, operations, env)
    IN  IF ~a.ok THEN a
        ELSE [a EXCEPT !.p3t.latched_reg = Some(reg)]

\* write_register
write_register(d, reg, bytes, env) ==
    LET operations == <<OperationWrite(<<reg>>), OperationWrite(bytes)>>
        a == Access(d, operations, env)
    IN  IF ~a.ok THEN a
        ELSE [a EXCEPT !.p3t.latched_reg = Some(reg)]

\* the results of the driver's operations: Ok(value), Ok(()) and Err(e)
RetValue(fn, a, value) ==
    IF a.ok THEN RetWord(fn, value) ELSE RetErr(fn, a.err)
RetWritten(fn, a) ==
    IF a.ok THEN [NoRet EXCEPT !.fn = fn, !.ok = TRUE] ELSE RetErr(fn, a.err)

\* the address of the SMBus alert response (alert.rs, process)
ALERT_RESPONSE_ADDRESS == 12

\* Alert::from_byte: the alert is kept as its byte
Alert_from_byte(byte) ==
    LET address_bits == byte \div 2
    IN  IF Address_new(address_bits) # None THEN Some(byte) ELSE None

\* Alert::address and Alert::condition
Alert_address(alert) == alert \div 2
Alert_condition(alert) ==
    IF alert % 2 = 0 THEN "UnderTemperature" ELSE "OverTemperature"

\* alert::process that takes every missing acknowledge for "no alert"
process_AnyNack(env) ==
    LET fn == "alert::process"
    IN  IF env.result # "Ok"
        THEN IF env.result \in {"NoAcknowledge(Address)", "NoAcknowledge(Data)",
                                "NoAcknowledge(Unknown)"}
             THEN [NoRet EXCEPT !.fn = fn, !.ok = TRUE]
             ELSE RetErr(fn, env.result)
        ELSE [NoRet EXCEPT !.fn = fn, !.ok = TRUE, !.word = Alert_from_byte(env.data[1])]

\* alert::process: Ok(None), Err(err) or Ok(Alert::from_byte(buf[0]))
process(env) ==
    LET fn == "alert::process"
    IN  IF env.result # "Ok"
        THEN IF env.result = "NoAcknowledge(Address)"
             THEN [NoRet EXCEPT !.fn = fn, !.ok = TRUE]
             ELSE RetErr(fn, env.result)
        ELSE [NoRet EXCEPT !.fn = fn, !.ok = TRUE, !.word = Alert_from_byte(env.data[1])]

----------------------------------------------------------------------------
(* TCA9535: register pairs (tca9535/src/lib.rs).                           *)

\* the first register of each pair
INPUT_PORT0 == 0
OUTPUT_PORT0 == 2
POLARITY_INVERSION_PORT0 == 4
CONFIGURATION_PORT0 == 6

\* the driver's field addr, and the eight port registers of the expander
\* after power-up: outputs high, no inversion, every pin an input
Tca9535_new(addr) ==
    [addr |-> addr,
     ports |-> [r \in 0..7 |-> IF r \in {2, 3, 6, 7} THEN 255 ELSE 0]]

\* u16::from_le_bytes and u16::to_le_bytes
u16_from_le_bytes(b) == b[1] + 256 * b[2]
u16_to_le_bytes(value) == <<value % 256, value \div 256>>

\* read_register_pair that takes the first byte as the high byte
read_register_pair_HighByteFirst(d, start, env) ==
    [addr |-> d.addr,
     ops |-> <<OperationWrite(<<start>>), OperationRead(2)>>,
     ret |-> IF env.result # "Ok" THEN RetErr("read_register_pair", env.result)
             ELSE RetWord("read_register_pair", from_be_bytes(env.data))]

\* read_register_pair: i2c.write_read is one transaction of a write and a
\* read
read_register_pair(d, start, env) ==
    [addr |-> d.addr,
     ops |-> <<OperationWrite(<<start>>), OperationRead(2)>>,
     ret |-> IF env.result # "Ok" THEN RetErr("read_register_pair", env.result)
             ELSE RetWord("read_register_pair", u16_from_le_bytes(env.data))]

\* write_register_pair: i2c.write is one transaction of one write
write_register_pair(d, start, value, env) ==
    LET b == u16_to_le_bytes(value)
    IN  [addr |-> d.addr,
         ops |-> <<OperationWrite(<<start, b[1], b[2]>>)>>,
         ret |-> IF env.result # "Ok" THEN RetErr("write_register_pair", env.result)
                 ELSE [NoRet EXCEPT !.fn = "write_register_pair", !.ok = TRUE]]

----------------------------------------------------------------------------
(* Inputs.                                                                 *)

\* n consecutive non-zero bytes 1, 2, ..., 255, 1, ...
Run(n) == [j \in 1..n |-> ((j - 1) % 255) + 1]

Chunks == {<<0>>, <<17>>, Run(253), Run(254), Run(255)}

RECURSIVE PayloadsOf(_)
PayloadsOf(k) ==
    IF k = 0 THEN {<<>>}
    ELSE LET S == PayloadsOf(k - 1)
         IN  S \cup {p \o c : p \in S, c \in Chunks}

Payloads == PayloadsOf(MaxChunks)
ResyncPayloads == PayloadsOf(MaxResyncChunks)
\* generate_example_data(start): 255 bytes counting up from start, wrapping
generate_example_data(start) == [i \in 1..255 |-> (start + ((i - 1) % 256)) % 256]

\* the payloads of the round-trip examples
Fixtures == {<<>>, <<0>>, <<0, 0>>, <<0, 17, 0>>, <<17, 34, 51, 68>>,
             generate_example_data(3)}

NoiseBytes == {0, 1, 2}

\* checksum inputs: the bytes of "123456789", and every sequence of at most
\* MaxCrcLen bytes of CrcBytes
CheckString == <<49, 50, 51, 52, 53, 54, 55, 56, 57>>
CrcBytes == {0, 1, 128, 165, 255}
CrcInputs == {CheckString} \cup UNION {[1..n -> CrcBytes] : n \in 0..MaxCrcLen}

\* command words of short frames: fixed opcodes, a register read, all ones
ShortCommands == {NULL, RESET, UNLOCK, RREG + 64, 65535}

\* register addresses and values of write-one frames
WriteAddrs == {0, 1, 127}
WriteValues == {1, 32768}

\* received frames: some data words, then a checksum word that carries the
\* right checksum, a wrong one or a byte-swapped one, with any pad byte
RxData == {<<>>, <<255, 255, 255>>, <<1, 35, 0, 69, 103, 0>>}
RxFrames ==
    {<<>>, <<0, 0>>} \cup
    UNION {{d \o to_be_bytes(k) \o <<pad>> :
              k \in {crc16_ccitt_const(d), Xor(crc16_ccitt_const(d), 1),
                      from_be_bytes(<<crc16_ccitt_const(d) % 256,
                                      crc16_ccitt_const(d) \div 256>>)},
              pad \in {0, 255}} : d \in RxData}

\* arguments of rreg, wreg and build_write_one: every value that meets the
\* preconditions, the first values past them, and the largest u8
CmdAddrs == 0..(2 ^ ADDR_BITS + 1) \cup {255}
CmdCounts == 0..(2 ^ N_BITS + 2) \cup {255}
CommandCalls ==
    {AdsCall(fn, a, n, 0, <<>>) : fn \in {"rreg", "wreg"}, a \in CmdAddrs, n \in CmdCounts}
    \cup {AdsCall("build_write_one", a, 1, v, <<>>) : a \in CmdAddrs, v \in WriteValues}

\* the frame-layer calls whose frames are built, carried and parsed
FrameCalls ==
    {AdsCall(fn, 0, 0, c, <<>>) : fn \in {"build_short", "build_short_frame"},
                                 c \in ShortCommands}
    \cup {AdsCall("build_write_one", a, 1, v, <<>>) : a \in WriteAddrs, v \in WriteValues}
    \cup {AdsCall("receive", 0, 0, 0, b) : b \in RxFrames}
FeedBytes == {0, 1, 2, 254, 255}

\* the calls of the frame builders, short, write-one and normal
BuildCalls ==
    {AdsCall(fn, 0, 0, c, <<>>) :
        fn \in {"build_short", "build_short_frame", "build_normal", "build_normal_frame"},
        c \in ShortCommands}
    \cup {AdsCall("build_write_one", a, 1, v, <<>>) : a \in WriteAddrs, v \in WriteValues}

\* the errors of the SPI device, opaque to the driver
SpiErrors == {"Overrun", "ModeFault"}
SpiResults == {"Ok"} \cup SpiErrors

\* a frame of the device: data words, then the checksum word of the data
\* with its low bits inverted by damage
DeviceFrame(data, damage) ==
    data \o to_be_bytes(Xor(crc16_ccitt_const(data), damage)) \o <<0>>

\* responses to a short frame: the word after a reset, and a status word
ShortResponses ==
    {DeviceFrame(to_be_bytes(w) \o <<0>>, 0) : w \in {65320, 1280}}

\* channel data: the extremes of 24 bits, values around the sign, and bytes
\* that differ in every position
ChannelData ==
    {<<0, 0, 0,  0, 0, 1,  127, 255, 255,  128, 0, 0,
       255, 255, 255,  18, 52, 86,  128, 0, 1,  171, 205, 239>>,
     <<255, 255, 254,  0, 1, 0,  1, 0, 0,  127, 255, 254,
       128, 0, 0,  0, 0, 127,  0, 0, 128,  128, 255, 255>>}

\* responses to a normal frame: a status word and the channel data, with
\* the right checksum and with a wrong one
NormalResponses ==
    {DeviceFrame(<<5, 0, 0>> \o d, damage) : d \in ChannelData, damage \in {0, 1}}

\* what the SPI device does with a write, with the transfer of a short
\* frame and with the transfer of a normal frame
WriteEnvs == {SpiEnv(r, <<>>) : r \in SpiResults}
ShortEnvs == {SpiEnv(r, IF r = "Ok" THEN b ELSE <<>>) : r \in SpiResults, b \in ShortResponses}
NormalEnvs == {SpiEnv(r, IF r = "Ok" THEN b ELSE <<>>) : r \in SpiResults, b \in NormalResponses}

\* the sensor addresses the driver is constructed with
SensorAddrs == {64, 72, 95}

\* the error kinds of the I2C bus
I2cErrors == {"Bus", "ArbitrationLoss", "NoAcknowledge(Address)",
              "NoAcknowledge(Data)", "NoAcknowledge(Unknown)", "Overrun", "Other"}
\* the errors a register transaction is made to fail with
TransactionErrors == {"Bus", "NoAcknowledge(Data)"}

\* register contents read from the sensor, and values written to it
ConfigBytes == {40, 255}
TemperatureRegs == {<<25, 16>>, <<245, 128>>, <<127, 255>>}
WriteConfigs == {40, 1}
WriteTemperatures == {Temperature_MIN, -168, 800, Temperature_MAX}

\* what the bus does with a register read of len bytes, with a register
\* write, and with the read of the alert response address
ReadEnvs(len) ==
    {I2cEnv("Ok", 2, d) : d \in IF len = 1 THEN {<<b>> : b \in ConfigBytes}
                                  ELSE TemperatureRegs}
    \cup {I2cEnv(e, done, <<>>) : e \in TransactionErrors, done \in 0..1}
RegWriteEnvs ==
    {I2cEnv("Ok", 2, <<>>)}
    \cup {I2cEnv(e, done, <<>>) : e \in TransactionErrors, done \in 0..1}
AlertEnvs ==
    {I2cEnv("Ok", 1, <<b>>) : b \in Byte} \cup {I2cEnv(e, 0, <<>>) : e \in I2cErrors}

\* register pairs handed to Temperature::from_regs: every high byte with
\* low bytes that differ in the low four bits only
TemperatureLowBytes == 0..15 \cup 240..255 \cup {128, 143}
TemperatureCalls ==
    {AdsCall("Temperature::to_regs", 0, 0, t, <<>>) :
        t \in Temperature_MIN..Temperature_MAX}
    \cup {AdsCall("Temperature::from_regs", 0, 0, 0, <<hi, lo>>) :
            hi \in Byte, lo \in TemperatureLowBytes}

\* arguments of the constructors of Temperature: raw values around the
\* limits of the range and of i16, every i8, every i16 of centi-degrees,
\* and register pairs
RawInputs == (-32768..-32760) \cup (-2056..-2040) \cup (-20..20)
             \cup (2040..2056) \cup (32760..32767)
ConstructorCalls ==
    {AdsCall(fn, 0, 0, raw, <<>>) :
        fn \in {"Temperature::from_raw", "Temperature::saturating_from_raw"},
        raw \in RawInputs}
    \cup {AdsCall("Temperature::from_degrees_celsius", 0, 0, deg_c, <<>>) :
            deg_c \in -128..127}
    \cup {AdsCall("Temperature::from_centi_degrees_celsius", 0, 0, c, <<>>) :
            c \in -32768..32767}
    \cup {AdsCall("Temperature::from_regs", 0, 0, 0, <<hi, lo>>) :
            hi \in Byte, lo \in {0, 15, 128, 240, 255}}

\* the fields of Config and the values a setter takes: a flag, or a variant
\* of FaultQueue or ConversionTime as the value of its bits
ConfigFields == {"shutdown_mode", "thermostat_mode", "polarity", "one_shot",
                 "fault_queue", "conversion_time"}
FieldValues(field) ==
    CASE field = "fault_queue" -> {0, 8, 16, 24}
      [] field = "conversion_time" -> {0, 32, 64, 96}
      [] OTHER -> BOOLEAN
\* a setter called on any configuration byte
ConfigCalls ==
    UNION {{AdsCall(field, 0, 0, value, <<config>>) :
              value \in FieldValues(field), config \in Byte} : field \in ConfigFields}

\* the expander addresses the driver is constructed with, the values
\* written to a register pair, and the levels found on the input pins
ExpanderAddrs == {32, 39}
PairValues == {0, 255, 4660, 32768, 65535}
InputLevels == {<<0, 0>>, <<52, 18>>, <<255, 255>>}

\* what the bus does with a transaction of the expander: its result, and
\* whether a write that failed was stored all the same
ExpanderEnvs == {I2cEnv("Ok", 1, <<>>)}
                \cup {I2cEnv(e, done, <<>>) : e \in TransactionErrors, done \in 0..1}

----------------------------------------------------------------------------
(* Operations.                                                             *)

\* no SPI call has been made, and the channel array is zeroed
SpiIdle == [result |-> "none", response |-> <<>>, log |-> <<>>]
NoChannels == [i \in 1..CHANNELS |-> 0]

\* no I2C transaction has been made; the sensor's pointer register is ptr
I2cIdle(ptr) ==
    [addr |-> 0, ops |-> <<>>, result |-> "none", done |-> 0, data |-> <<>>,
     pointer |-> ptr, accessed |-> None]

\* the drivers are constructed and no bus has been used
BusIdle ==
    /\ spi = SpiIdle
    /\ channels = NoChannels
    /\ p3t = P3t1755_new(64)
    /\ i2c = I2cIdle(TEMP_REG)
    /\ tca = Tca9535_new(32)

\* Encoder::pull, called by encode_full_slice until it returns None
Pull ==
    /\ lastPull # None
    /\ LET r == EncoderPull(enc)
       IN  /\ enc' = r.state
           /\ lastPull' = r.ret
           /\ wire' = IF r.ret = None THEN wire ELSE Append(wire, r.ret[1])
    /\ pulled' = pulled + 1
    /\ UNCHANGED <<payload, fed, noise, dstate, buf, pos, res, inp, adsVars, busVars>>

\* Encoder::pull called again after it has returned None
PullAfterEnd ==
    /\ lastPull = None
    /\ pulled < Len(wire) + 1 + MaxExtraPulls
    /\ LET r == EncoderPull(enc)
       IN  /\ enc' = r.state
           /\ lastPull' = r.ret
           /\ wire' = IF r.ret = None THEN wire ELSE Append(wire, r.ret[1])
    /\ pulled' = pulled + 1
    /\ UNCHANGED <<payload, fed, noise, dstate, buf, pos, res, inp, adsVars, busVars>>

\* the assignments of one Decoder::feed(byte) call
FeedByte(byte) ==
    LET r == DecoderFeed(dstate, buf, pos, byte)
    IN  /\ dstate' = r.state
        /\ buf' = r.buf
        /\ pos' = r.pos
        /\ res' = r.res
        /\ inp' = byte

\* decode_full_slice: the encoded frame is fed in order, one byte per call
FeedWire ==
    /\ lastPull = None
    /\ fed < Len(wire)
    /\ FeedByte(wire[fed + 1])
    /\ fed' = fed + 1
    /\ UNCHANGED <<payload, enc, pulled, lastPull, wire, noise, adsVars, busVars>>

\* Decoder::feed with an arbitrary byte
Feed ==
    \E byte \in FeedBytes :
        /\ FeedByte(byte)
        /\ UNCHANGED <<payload, enc, pulled, lastPull, wire, fed, noise, adsVars, busVars>>

\* bytes that reach the decoder before the frame does
FeedNoise ==
    /\ lastPull = None
    /\ fed = 0
    /\ noise < MaxNoise
    /\ \E byte \in NoiseBytes : FeedByte(byte)
    /\ noise' = noise + 1
    /\ UNCHANGED <<payload, enc, pulled, lastPull, wire, fed, adsVars, busVars>>

\* the frame is fed from a frame boundary of the stream
FeedFrame ==
    /\ fed = 0 => dstate = Idle
    /\ FeedWire

\* Encoder::new(payload) and Decoder::new_uninit over a buffer of cap cells
InitCodec(P, cap) ==
    /\ payload = P
    /\ enc = EncoderNew(P)
    /\ pulled = 0
    /\ lastPull = Some(0)
    /\ wire = <<>>
    /\ fed = 0
    /\ noise = 0
    /\ dstate = DecoderStateNew
    /\ buf = NewBuf(cap)
    /\ pos = 0
    /\ res = NoCall
    /\ inp = NoByte
    /\ profile = [debug_assertions |-> TRUE, overflow_checks |-> TRUE]
    /\ call = NoAdsCall
    /\ frame = <<>>
    /\ flip = None
    /\ ret = NoRet
    /\ BusIdle

\* no COBS activity: the codec variables of the ADS131M08 runs
CobsIdle ==
    /\ payload = <<>>
    /\ enc = EncoderNew(<<>>)
    /\ pulled = 0
    /\ lastPull = Some(0)
    /\ wire = <<>>
    /\ fed = 0
    /\ noise = 0
    /\ dstate = DecoderStateNew
    /\ buf = <<>>
    /\ pos = 0
    /\ res = NoCall
    /\ inp = NoByte

\* an ADS131M08 function is about to be called with the arguments c
InitAds(p, c) ==
    /\ CobsIdle
    /\ profile = p
    /\ call = c
    /\ frame = <<>>
    /\ flip = None
    /\ ret = NoRet
    /\ BusIdle

\* the pending call is fn, and it returns the word or panic r
ReturnWord(fn, r) ==
    /\ call.fn = fn
    /\ ret.fn = "none"
    /\ ret' = IF r.panicked THEN RetPanic(fn) ELSE RetWord(fn, r.word[1])
    /\ UNCHANGED <<cobsVars, busVars, profile, call, frame, flip>>

\* the pending call is fn, and it returns the byte array r or panics; the
\* array is the frame sent
ReturnFrame(fn, r) ==
    /\ call.fn = fn
    /\ ret.fn = "none"
    /\ ret' = IF r.panicked THEN RetPanic(fn) ELSE RetBytes(fn, r.buf)
    /\ frame' = IF r.panicked THEN frame ELSE r.buf
    /\ UNCHANGED <<cobsVars, busVars, profile, call, flip>>

\* crc16_ccitt_const(data) of lib.rs
Crc16 ==
    ReturnWord("crc16_ccitt_const", Word(crc16_ccitt_const(call.data)))

\* crc16_ccitt_const(data) of frame.rs
FrameCrc16 ==
    ReturnWord("frame::crc16_ccitt_const", Word(frame_crc16_ccitt_const(call.data)))

\* rreg(addr, n)
Rreg ==
    ReturnWord("rreg", rreg(profile, call.addr, call.n))

\* wreg(addr, n)
Wreg ==
    ReturnWord("wreg", wreg(profile, call.addr, call.n))

\* build_short(command) of frame.rs
BuildShort ==
    ReturnFrame("build_short", build_short(profile, call.value))

\* build_short_frame(command) of lib.rs
BuildShortFrame ==
    ReturnFrame("build_short_frame", build_short_frame(profile, call.value))

\* build_write_one(addr, value) of frame.rs
BuildWriteOne ==
    ReturnFrame("build_write_one", build_write_one(profile, call.addr, call.value))

\* build_normal(command) of frame.rs
BuildNormal ==
    ReturnFrame("build_normal", build_normal(profile, call.value))

\* build_normal_frame(command) of lib.rs
BuildNormalFrame ==
    ReturnFrame("build_normal_frame", build_normal_frame(profile, call.value))

\* a frame arrives from the bus
Receive ==
    ReturnFrame("receive", Buf(call.data))

\* b with bit k inverted (bit 0 is the lowest bit of the first byte)
FlipBit(b, k) == [b EXCEPT ![(k \div 8) + 1] = Xor(@, 2 ^ (k % 8))]

\* a frame that has been built or received, and not parsed yet
InTransit ==
    /\ ret.fn \in {"build_short", "build_short_frame", "build_write_one", "receive"}
    /\ ~ret.panicked

\* one bit of the frame is inverted on its way to the parser
Corrupt ==
    /\ InTransit
    /\ flip = None
    /\ \E k \in 0..(8 * Len(frame) - 1) :
           /\ flip' = Some(k)
           /\ frame' = FlipBit(frame, k)
    /\ UNCHANGED <<cobsVars, busVars, profile, call, ret>>

\* the outcome of a get_verified_data copy as the result of the call fn
RetVerified(fn, r) ==
    IF r.panicked THEN RetPanic(fn)
    ELSE IF r.ok THEN RetBytes(fn, r.data)
    ELSE RetErr(fn, r.err)

\* get_verified_data(frame) of lib.rs
Verify ==
    /\ InTransit
    /\ ret' = RetVerified("get_verified_data", get_verified_data(frame))
    /\ UNCHANGED <<cobsVars, busVars, profile, call, frame, flip>>

\* get_verified_data(frame) of frame.rs
FrameVerify ==
    /\ InTransit
    /\ ret' = RetVerified("frame::get_verified_data", frame_get_verified_data(frame))
    /\ UNCHANGED <<cobsVars, busVars, profile, call, frame, flip>>

\* the ADS131M08 operation c runs to its return d against the device env
Operate(c, d, env) ==
    /\ call' = c
    /\ ret' = d.ret
    /\ spi' = IF d.log = <<>> THEN SpiIdle
              ELSE [result |-> env.result, response |-> env.response, log |-> d.log]
    /\ channels' = d.channels
    /\ UNCHANGED <<cobsVars, profile, frame, flip, p3t, i2c, tca>>

ResetDeviceStart ==
    \E env \in WriteEnvs :
        Operate(AdsCall("reset_device_start", 0, 0, 0, <<>>), reset_device_start(profile, env, channels), env)

ResetDeviceComplete ==
    \E env \in ShortEnvs :
        Operate(AdsCall("reset_device_complete", 0, 0, 0, <<>>), reset_device_complete(profile, env, channels), env)

LockRegisters ==
    \E env \in ShortEnvs :
        Operate(AdsCall("lock_registers", 0, 0, 0, <<>>), lock_registers(profile, env, channels), env)

UnlockRegisters ==
    \E env \in ShortEnvs :
        Operate(AdsCall("unlock_registers", 0, 0, 0, <<>>), unlock_registers(profile, env, channels), env)

Standby ==
    \E env \in WriteEnvs :
        Operate(AdsCall("standby", 0, 0, 0, <<>>), standby(profile, env, channels), env)

Wakeup ==
    \E env \in WriteEnvs :
        Operate(AdsCall("wakeup", 0, 0, 0, <<>>), wakeup(profile, env, channels), env)

ReadAdcData ==
    \E env \in NormalEnvs :
        Operate(AdsCall("read_adc_data", 0, 0, 0, <<>>), read_adc_data(profile, env, channels), env)

WriteRegister ==
    \E a \in WriteAddrs : \E v \in WriteValues : \E env \in WriteEnvs :
        Operate(AdsCall("write_single_register", a, 1, v, <<>>),
                write_single_register(profile, a, v, env, channels), env)

\* the sensor's pointer register after a transaction of which done
\* operations were carried out: a first write sets it
DevicePointer(ptr, ops, done) ==
    IF done >= 1 /\ ops[1].kind = "Write" THEN ops[1].bytes[1] ELSE ptr

\* a register access c of the P3T1755 driver returns r after the
\* transaction a
Transact(c, a, r, env) ==
    LET done == IF a.ok THEN Len(a.ops) ELSE Min(env.done, Len(a.ops) - 1)
    IN  /\ call' = c
        /\ ret' = r
        /\ p3t' = a.p3t
        /\ i2c' = [addr |-> a.addr, ops |-> a.ops, result |-> env.result,
                   done |-> done, data |-> a.buf,
                   pointer |-> DevicePointer(i2c.pointer, a.ops, done),
                   accessed |-> IF a.ok THEN Some(c.addr) ELSE i2c.accessed]
        /\ UNCHANGED <<cobsVars, profile, frame, flip, spi, channels, tca>>

ReadConfig ==
    \E env \in ReadEnvs(1) :
        LET a == read_register(p3t, CONF_REG, 1, env)
        IN  Transact(AdsCall("read_config", CONF_REG, 1, 0, <<>>), a,
                     IF a.ok THEN RetWord("read_config", Config_from_reg(a.buf[1]))
                     ELSE RetErr("read_config", a.err), env)

WriteConfig ==
    \E config \in WriteConfigs : \E env \in RegWriteEnvs :
        LET a == write_register(p3t, CONF_REG, <<Config_to_reg(config)>>, env)
        IN  Transact(AdsCall("write_config", CONF_REG, 1, config, <<>>), a,
                     RetWritten("write_config", a), env)

ReadTLow ==
    \E env \in ReadEnvs(2) :
        LET a == read_register(p3t, T_LOW_REG, 2, env)
        IN  Transact(AdsCall("read_t_low", T_LOW_REG, 2, 0, <<>>), a,
                     IF a.ok THEN RetWord("read_t_low", Temperature_from_regs(a.buf))
                     ELSE RetErr("read_t_low", a.err), env)

WriteTLow ==
    \E temp \in WriteTemperatures : \E env \in RegWriteEnvs :
        LET a == write_register(p3t, T_LOW_REG, Temperature_to_regs(temp), env)
        IN  Transact(AdsCall("write_t_low", T_LOW_REG, 2, temp, <<>>), a,
                     RetWritten("write_t_low", a), env)

ReadTHigh ==
    \E env \in ReadEnvs(2) :
        LET a == read_register(p3t, T_HIGH_REG, 2, env)
        IN  Transact(AdsCall("read_t_high", T_HIGH_REG, 2, 0, <<>>), a,
                     IF a.ok THEN RetWord("read_t_high", Temperature_from_regs(a.buf))
                     ELSE RetErr("read_t_high", a.err), env)

WriteTHigh ==
    \E temp \in WriteTemperatures : \E env \in RegWriteEnvs :
        LET a == write_register(p3t, T_HIGH_REG, Temperature_to_regs(temp), env)
        IN  Transact(AdsCall("write_t_high", T_HIGH_REG, 2, temp, <<>>), a,
                     RetWritten("write_t_high", a), env)

ReadTemperature ==
    \E env \in ReadEnvs(2) :
        LET a == read_register(p3t, TEMP_REG, 2, env)
        IN  Transact(AdsCall("read_temperature", TEMP_REG, 2, 0, <<>>), a,
                     IF a.ok THEN RetWord("read_temperature", Temperature_from_regs(a.buf))
                     ELSE RetErr("read_temperature", a.err), env)

\* alert::process on the bus the sensor is on
ProcessAlert ==
    \E env \in AlertEnvs :
        /\ call' = AdsCall("alert::process", ALERT_RESPONSE_ADDRESS, 1, 0, <<>>)
        /\ ret' = process(env)
        /\ i2c' = [i2c EXCEPT !.addr = ALERT_RESPONSE_ADDRESS,
                              !.ops = <<OperationRead(1)>>,
                              !.result = env.result,
                              !.done = IF env.result = "Ok" THEN 1 ELSE 0,
                              !.data = env.data]
        /\ UNCHANGED <<cobsVars, profile, frame, flip, spi, channels, p3t, tca>>

\* Temperature::to_regs(call.value)
ToRegs ==
    ReturnFrame("Temperature::to_regs", Buf(Temperature_to_regs(call.value)))

\* the registers written are read back
ReadBack ==
    /\ ret.fn = "Temperature::to_regs"
    /\ call' = AdsCall("Temperature::from_regs", 0, 0, call.value, frame)
    /\ ret' = NoRet
    /\ UNCHANGED <<cobsVars, busVars, profile, frame, flip>>

\* Temperature::from_regs(call.data)
FromRegs ==
    ReturnWord("Temperature::from_regs", Word(Temperature_from_regs(call.data)))

\* the pending call is fn, and it returns the Option r
ReturnOption(fn, r) ==
    /\ call.fn = fn
    /\ ret.fn = "none"
    /\ ret' = [NoRet EXCEPT !.fn = fn, !.ok = TRUE, !.word = r]
    /\ UNCHANGED <<cobsVars, busVars, profile, call, frame, flip>>

FromRaw ==
    ReturnOption("Temperature::from_raw", Temperature_from_raw(call.value))

SaturatingFromRaw ==
    ReturnOption("Temperature::saturating_from_raw",
                 Some(Temperature_saturating_from_raw(call.value)))

FromDegreesCelsius ==
    ReturnOption("Temperature::from_degrees_celsius",
                 Some(Temperature_from_degrees_celsius(call.value)))

FromCentiDegreesCelsius ==
    ReturnOption("Temperature::from_centi_degrees_celsius",
                 Some(Temperature_from_centi_degrees_celsius(call.value)))

\* the constructors of Temperature
Constructors == {"Temperature::from_regs", "Temperature::from_raw",
                 "Temperature::saturating_from_raw",
                 "Temperature::from_degrees_celsius",
                 "Temperature::from_centi_degrees_celsius"}

\* a getter fn is called on the Temperature a constructor has returned
Getter(fn, value) ==
    /\ ret.fn \in Constructors
    /\ ret.word # None
    /\ call' = AdsCall(fn, 0, 0, ret.word[1], <<>>)
    /\ ret' = RetWord(fn, value)
    /\ frame' = <<>>
    /\ UNCHANGED <<cobsVars, busVars, profile, flip>>

Raw == Getter("Temperature::raw", ret.word[1])

DegreesCelsius ==
    Getter("Temperature::degrees_celsius", Temperature_degrees_celsius(ret.word[1]))

CentiDegreesCelsius ==
    Getter("Temperature::centi_degrees_celsius",
           Temperature_centi_degrees_celsius(ret.word[1]))

\* the setter of a field is called on the configuration call.data[1]
ConfigWith(field) ==
    /\ call.fn = field
    /\ ret.fn = "none"
    /\ ret' = RetWord(field, Config_with(call.data[1], field, call.value))
    /\ UNCHANGED <<cobsVars, busVars, profile, call, frame, flip>>

WithShutdownMode == ConfigWith("shutdown_mode")
WithThermostatMode == ConfigWith("thermostat_mode")
WithPolarity == ConfigWith("polarity")
WithOneShot == ConfigWith("one_shot")
WithFaultQueue == ConfigWith("fault_queue")
WithConversionTime == ConfigWith("conversion_time")

\* the two registers of the pair at start, as the expander returns them
PortPair(ports, start) == <<ports[start], ports[start + 1]>>

\* the operation fn of the Tca9535 driver reads the pair at start; the
\* expander returns levels for the input pair and its registers otherwise
ReadPair(fn, start) ==
    \E env \in ExpanderEnvs : \E levels \in InputLevels :
        LET data == IF env.result # "Ok" THEN <<>>
                    ELSE IF start = INPUT_PORT0 THEN levels
                    ELSE PortPair(tca.ports, start)
            t == read_register_pair(tca, start, [env EXCEPT !.data = data])
        IN  /\ call' = AdsCall(fn, start, 2, 0, <<>>)
            /\ ret' = [t.ret EXCEPT !.fn = fn]
            /\ i2c' = [i2c EXCEPT !.addr = t.addr, !.ops = t.ops,
                                  !.result = env.result, !.data = data,
                                  !.done = IF env.result = "Ok" THEN 2 ELSE 0]
            /\ UNCHANGED <<cobsVars, profile, frame, flip, spi, channels, p3t, tca>>

\* the operation fn of the Tca9535 driver writes value to the pair at start;
\* the expander stores the bytes it has received
WritePair(fn, start) ==
    \E env \in ExpanderEnvs : \E value \in PairValues :
        LET t == write_register_pair(tca, start, value, env)
            stored == env.result = "Ok" \/ env.done = 1
            bytes == t.ops[1].bytes
        IN  /\ call' = AdsCall(fn, start, 2, value, <<>>)
            /\ ret' = [t.ret EXCEPT !.fn = fn]
            /\ i2c' = [i2c EXCEPT !.addr = t.addr, !.ops = t.ops,
                                  !.result = env.result, !.data = <<>>,
                                  !.done = IF stored THEN 1 ELSE 0]
            /\ tca' = IF stored
                      THEN [tca EXCEPT !.ports[bytes[1]] = bytes[2],
                                       !.ports[bytes[1] + 1] = bytes[3]]
                      ELSE tca
            /\ UNCHANGED <<cobsVars, profile, frame, flip, spi, channels, p3t>>

ReadInput == ReadPair("read_input", INPUT_PORT0)
ReadOutput == ReadPair("read_output", OUTPUT_PORT0)
WriteOutput == WritePair("write_output", OUTPUT_PORT0)
ReadPolarityInversion == ReadPair("read_polarity_inversion", POLARITY_INVERSION_PORT0)
WritePolarityInversion == WritePair("write_polarity_inversion", POLARITY_INVERSION_PORT0)
ReadConfiguration == ReadPair("read_configuration", CONFIGURATION_PORT0)
WriteConfiguration == WritePair("write_configuration", CONFIGURATION_PORT0)

----------------------------------------------------------------------------
(* Specifications.                                                         *)

\* assert_roundtrip: encode a payload, then decode the result with a fresh
\* decoder whose buffer holds at least the payload
Init ==
    \E P \in Payloads : \E slack \in 0..MaxSlack : InitCodec(P, Len(P) + slack)

Next == Pull \/ FeedWire

Spec == Init /\ [][Next]_vars

\* a decoder over a small buffer that is fed arbitrary bytes
InitDec ==
    \E cap \in 0..MaxCap : InitCodec(<<>>, cap)

NextDec == Feed

SpecDec == InitDec /\ [][NextDec]_vars

\* a frame is encoded and fed to a fresh decoder whose buffer may be
\* shorter than the payload
InitTrunc ==
    \E P \in Payloads : \E cap \in 0..MaxCap : InitCodec(P, cap)

NextTrunc == Pull \/ FeedWire

SpecTrunc == InitTrunc /\ [][NextTrunc]_vars

\* a used decoder: arbitrary bytes, then a complete frame from a boundary
InitResync ==
    \E P \in ResyncPayloads : \E slack \in 0..MaxSlack : InitCodec(P, Len(P) + slack)

NextResync == Pull \/ FeedNoise \/ FeedFrame

SpecResync == InitResync /\ [][NextResync]_vars

\* roundtrip_example_*: the example payloads, encoded and decoded
InitFix ==
    \E P \in Fixtures : \E slack \in 0..MaxSlack : InitCodec(P, Len(P) + slack)

NextFix == Pull \/ FeedWire

SpecFix == InitFix /\ [][NextFix]_vars

\* an encoder that is pulled to the end and beyond
InitEnc ==
    \E P \in Payloads : InitCodec(P, 0)

NextEnc == Pull \/ PullAfterEnd

SpecEnc == InitEnc /\ [][NextEnc]_vars

\* the checksum functions applied to byte sequences
InitCrc ==
    \E p \in Profiles : \E data \in CrcInputs :
        \E fn \in {"crc16_ccitt_const", "frame::crc16_ccitt_const"} :
            InitAds(p, AdsCall(fn, 0, 0, 0, data))

NextCrc == Crc16 \/ FrameCrc16

SpecCrc == InitCrc /\ [][NextCrc]_vars

\* command words packed from any address and count
InitCmd ==
    \E p \in Profiles : \E c \in CommandCalls : InitAds(p, c)

NextCmd == Rreg \/ Wreg \/ BuildWriteOne

SpecCmd == InitCmd /\ [][NextCmd]_vars

\* frames built or received, possibly hit by a bit error, then parsed
InitFrame ==
    \E p \in Profiles : \E c \in FrameCalls : InitAds(p, c)

NextFrame ==
    \/ BuildShort
    \/ BuildShortFrame
    \/ BuildWriteOne
    \/ Receive
    \/ Corrupt
    \/ Verify
    \/ FrameVerify

SpecFrame == InitFrame /\ [][NextFrame]_vars

\* the operations of the ADS131M08 driver, in any order, against an SPI
\* device that answers or fails
InitDrv ==
    \E p \in Profiles : InitAds(p, NoAdsCall)

NextDrv ==
    \/ ResetDeviceStart
    \/ ResetDeviceComplete
    \/ LockRegisters
    \/ UnlockRegisters
    \/ Standby
    \/ Wakeup
    \/ ReadAdcData
    \/ WriteRegister

SpecDrv == InitDrv /\ [][NextDrv]_vars

\* every caller of write_command_const, called once: the builders of both
\* files with their commands, and read_adc_data against the device
InitBuild ==
    \E p \in Profiles : \E c \in BuildCalls \cup {NoAdsCall} : InitAds(p, c)

NextBuild ==
    \/ BuildShort
    \/ BuildShortFrame
    \/ BuildWriteOne
    \/ BuildNormal
    \/ BuildNormalFrame
    \/ (call.fn = "none" /\ ReadAdcData)

SpecBuild == InitBuild /\ [][NextBuild]_vars

\* the operations of the P3T1755 driver and the alert response, in any
\* order, against a bus that answers or fails
InitP3t ==
    \E a \in SensorAddrs : \E ptr \in Register :
        /\ CobsIdle
        /\ profile = [debug_assertions |-> TRUE, overflow_checks |-> TRUE]
        /\ call = NoAdsCall
        /\ frame = <<>>
        /\ flip = None
        /\ ret = NoRet
        /\ spi = SpiIdle
        /\ channels = NoChannels
        /\ p3t = P3t1755_new(a)
        /\ i2c = I2cIdle(ptr)
        /\ tca = Tca9535_new(32)

NextP3t ==
    \/ ReadConfig
    \/ WriteConfig
    \/ ReadTLow
    \/ WriteTLow
    \/ ReadTHigh
    \/ WriteTHigh
    \/ ReadTemperature
    \/ ProcessAlert

SpecP3t == InitP3t /\ [][NextP3t]_vars

\* temperatures written to registers and read back, and registers read
InitTemp ==
    \E c \in TemperatureCalls :
        InitAds([debug_assertions |-> TRUE, overflow_checks |-> TRUE], c)

NextTemp == ToRegs \/ ReadBack \/ FromRegs

SpecTemp == InitTemp /\ [][NextTemp]_vars

\* a Temperature is constructed, then read in a unit
InitUnits ==
    \E c \in ConstructorCalls :
        InitAds([debug_assertions |-> TRUE, overflow_checks |-> TRUE], c)

NextUnits ==
    \/ FromRegs
    \/ FromRaw
    \/ SaturatingFromRaw
    \/ FromDegreesCelsius
    \/ FromCentiDegreesCelsius
    \/ Raw
    \/ DegreesCelsius
    \/ CentiDegreesCelsius

SpecUnits == InitUnits /\ [][NextUnits]_vars

\* a setter of Config is called on any configuration
InitConfig ==
    \E c \in ConfigCalls :
        InitAds([debug_assertions |-> TRUE, overflow_checks |-> TRUE], c)

NextConfig ==
    \/ WithShutdownMode
    \/ WithThermostatMode
    \/ WithPolarity
    \/ WithOneShot
    \/ WithFaultQueue
    \/ WithConversionTime

SpecConfig == InitConfig /\ [][NextConfig]_vars

\* the operations of the TCA9535 driver, in any order, against an expander
\* that stores what it receives and a bus that answers or fails
InitTca ==
    \E a \in ExpanderAddrs :
        /\ CobsIdle
        /\ profile = [debug_assertions |-> TRUE, overflow_checks |-> TRUE]
        /\ call = NoAdsCall
        /\ frame = <<>>
        /\ flip = None
        /\ ret = NoRet
        /\ spi = SpiIdle
        /\ channels = NoChannels
        /\ p3t = P3t1755_new(64)
        /\ i2c = I2cIdle(TEMP_REG)
        /\ tca = Tca9535_new(a)

NextTca ==
    \/ ReadInput
    \/ ReadOutput
    \/ WriteOutput
    \/ ReadPolarityInversion
    \/ WritePolarityInversion
    \/ ReadConfiguration
    \/ WriteConfiguration

SpecTca == InitTca /\ [][NextTca]_vars

----------------------------------------------------------------------------
(* Properties of the codec.                                                *)

\* the encoder returned None and every pulled byte has been fed
FrameFed == lastPull = None /\ fed = Len(wire) /\ fed > 0

\* some Decoder::feed(byte) call is the step from the unprimed to the primed state
FeedOf(byte) == inp' = byte /\ <<decVars, fed, noise>>' # <<decVars, fed, noise>>

HasLongRun(P) == \E i \in 1..Len(P) : i + 253 <= Len(P) /\ \A j \in i..(i + 253) : P[j] # 0

\* C1: round trip. Once every byte pulled from Encoder::new(P) has been fed,
\* in order, to a fresh decoder whose buffer holds at least len(P) bytes, the
\* last feed returned Ok(Some(len(P))) and data() equals P.
C1_RoundTrip ==
    FrameFed => /\ res = Ok(Some(Len(payload)))
                /\ DecoderData = payload

\* a payload with a run of at least 254 non-zero bytes that ends in 0x00 has
\* made the round trip
C1_Witness ==
    /\ FrameFed
    /\ HasLongRun(payload)
    /\ payload[Len(payload)] = 0
    /\ DecoderData = payload

\* C2: delimiter safety. No pulled byte but the last is 0x00, and once the
\* encoder is exhausted the last pulled byte is 0x00: the encoded frame holds
\* 0x00 exactly once, as its last byte.
C2_DelimiterSafe ==
    /\ \A i \in 1..(Len(wire) - 1) : wire[i] \in 1..255
    /\ lastPull = None => (Len(wire) >= 1 /\ wire[Len(wire)] = 0)
    /\ (Len(wire) >= 1 /\ wire[Len(wire)] = 0) => enc.tag = "End"

\* the encoder is exhausted for a payload that holds zeros and a run of at
\* least 254 non-zero bytes
C2_Witness ==
    /\ lastPull = None
    /\ HasLongRun(payload)
    /\ \E i \in 1..Len(payload) : payload[i] = 0
    /\ wire[Len(wire)] = 0

\* C3: frame-boundary signalling. While the encoded frame is fed to a fresh
\* decoder, every feed but the last returns Ok(None) and the last returns
\* Ok(Some(len(P))).
C3_FrameBoundary ==
    /\ (lastPull = None /\ 0 < fed /\ fed < Len(wire)) => res = Ok(None)
    /\ FrameFed => res = Ok(Some(Len(payload)))

----------------------------------------------------------------------------
(* Properties of the decoder's steps.                                      *)

\* the next state of the specified transition table
TableNext(s, byte) ==
    IF s.tag = "Idle" /\ byte = 0 THEN Idle
    ELSE IF s.n = 0 /\ byte = 255 THEN PartialBlock(254)
    ELSE IF s.n = 0 /\ byte # 0 THEN Block(byte - 1)
    ELSE IF s.n = 0 THEN Idle
    ELSE IF byte = 0 THEN Idle
    ELSE [tag |-> s.tag, n |-> s.n - 1]

\* the destination after an "output byte d" action: one byte appended, or
\* BufferTooSmall and nothing written when the buffer is full
Outputs(d) ==
    IF pos < Len(buf)
    THEN buf' = [buf EXCEPT ![pos + 1] = d] /\ pos' = pos + 1 /\ res' = Ok(None)
    ELSE buf' = buf /\ pos' = pos /\ res' = Err("BufferTooSmall")

\* C4: every feed follows the transition table: the next state is the
\* table's, Block(0)/PartialBlock(0) + 0x00 reports a completed frame,
\* Block(i>0)/PartialBlock(i>0) + 0x00 reports InvalidFrame, and
\* Block(i>0)/PartialBlock(i>0) + n outputs the byte n.
C4_TransitionTable ==
    [][\A byte \in Byte : FeedOf(byte) =>
        /\ dstate' = TableNext(dstate, byte)
        /\ (dstate.tag # "Idle" /\ dstate.n = 0 /\ byte = 0) =>
               (res'.tag = "Ok" /\ res'.val # None)
        /\ (dstate.tag # "Idle" /\ dstate.n > 0 /\ byte = 0) =>
               res' = Err("InvalidFrame")
        /\ (dstate.tag # "Idle" /\ dstate.n > 0 /\ byte # 0) => Outputs(byte)
      ]_vars

\* a PartialBlock counted down to 0 by literal bytes, a premature 0x00 was
\* rejected, or a frame completed
C4_Witness ==
    \/ dstate = PartialBlock(0) /\ inp \in 1..255
    \/ dstate = Idle /\ res = Err("InvalidFrame") /\ inp = 0
    \/ dstate = Idle /\ res.tag = "Ok" /\ res.val # None /\ inp = 0 /\ pos > 0

\* C5: implicit zero. A non-zero byte in Block(0) appends exactly one 0x00
\* (an output-byte action: nothing when the buffer is full) and never the
\* byte itself; a non-zero byte in PartialBlock(0) appends nothing.
C5_ImplicitZero ==
    [][\A byte \in 1..255 : FeedOf(byte) =>
        /\ dstate = Block(0) => Outputs(0)
        /\ dstate = PartialBlock(0) => (buf' = buf /\ pos' = pos)
      ]_vars

\* a length byte has just been taken in PartialBlock(0) with nothing appended,
\* after zeros were re-inserted by length bytes taken in Block(0)
C5_Witness ==
    /\ dstate = Block(0)
    /\ inp = 1
    /\ res = Ok(Some(0))
    /\ pos = 2
    /\ buf = <<0, 0>>

\* C6: after the malformed-frame error data() exposes no byte of the
\* aborted frame.
C6_NoPartialOutput ==
    res = Err("InvalidFrame") => DecoderData = <<>>

\* a step that must output a byte: a non-zero byte inside a block, or a
\* length byte that re-inserts the elided zero
OutputStep(s, byte) ==
    byte # 0 /\ (s.tag = "Block" \/ (s.tag = "PartialBlock" /\ s.n > 0))

\* C7: buffer exhaustion. The cursor never passes the buffer length, and a
\* step that must output a byte with the buffer full returns BufferTooSmall
\* and leaves the buffer and the cursor as they were.
C7_BufferExhaustion ==
    /\ [](pos <= Len(buf))
    /\ [][\A byte \in Byte : (FeedOf(byte) /\ OutputStep(dstate, byte) /\ pos = Len(buf)) =>
            (res' = Err("BufferTooSmall") /\ buf' = buf /\ pos' = pos)
         ]_vars

\* BufferTooSmall was returned with the buffer full of decoded bytes
C7_Witness ==
    /\ res = Err("BufferTooSmall")
    /\ pos = Len(buf)
    /\ pos > 0

\* C8: after a feed that returns Ok(Some(_)) or Err(_) the decoder is Idle.
C8_IdleAfterFrame ==
    (res.val # None \/ res.tag \in {"InvalidFrame", "BufferTooSmall", "EmptyFrame"})
        => dstate = Idle

\* C9: 0x00 fed in Idle is a no-op: Idle stays, buffer and cursor are
\* unchanged, and no completed frame is reported.
C9_StrayDelimiter ==
    [][(FeedOf(0) /\ dstate = Idle) =>
        (dstate' = Idle /\ buf' = buf /\ pos' = pos /\ res'.val = None)
      ]_vars

\* C10: resynchronisation. A decoder that has been through completed or
\* malformed frames and stray 0x00 bytes, and is then fed the complete
\* encoding of Q from a frame boundary, returns Ok(Some(len(Q))) on the last
\* byte with data() equal to Q.
C10_Resync ==
    FrameFed => /\ res = Ok(Some(Len(payload)))
                /\ DecoderData = payload
                /\ pos = Len(payload)

\* a frame with a run of 255 non-zero bytes was decoded after three bytes of
\* an earlier frame
C10_Witness ==
    /\ FrameFed
    /\ noise >= 3
    /\ Len(payload) >= 255
    /\ DecoderData = payload

----------------------------------------------------------------------------
(* Properties of the encoder.                                              *)

\* some Encoder::pull call is the step from the unprimed to the primed state
PullStep == pulled' = pulled + 1

\* the pull emits a length prefix: the encoder splits a new block off `src`
PrefixStep(src) ==
    /\ PullStep
    /\ \/ enc.tag = "Start" /\ src = enc.block.data
       \/ /\ enc.tag = "Block" /\ enc.block.data = <<>> /\ src = enc.block.rest
          /\ (enc.block.zero \/ enc.block.rest # <<>>)

\* C11: block structure. A pull that emits a length prefix emits 1 + the
\* number of literal bytes of the block it opens, and those bytes (none of
\* them 0x00, at most 254) are what the following pulls emit before the next
\* prefix or the terminator; the prefix is 0xFF exactly for 254 literals,
\* and then no input zero is consumed; a block with a smaller prefix that is
\* followed by another block consumed exactly one input 0x00.
C11_BlockStructure ==
    /\ [][\A src \in {enc.block.data, enc.block.rest} : PrefixStep(src) =>
            LET blk == enc'.block
                prefix == lastPull'[1]
            IN  /\ enc'.tag = "Block"
                /\ prefix = 1 + Len(blk.data)
                /\ Len(blk.data) <= 254
                /\ \A i \in 1..Len(blk.data) : blk.data[i] # 0
                /\ prefix = 255 <=> Len(blk.data) = 254
                /\ prefix = 255 => (~blk.zero /\ src = blk.data \o blk.rest)
                /\ (prefix < 255 /\ (blk.zero \/ blk.rest # <<>>)) =>
                       src = blk.data \o <<0>> \o blk.rest
         ]_vars
    /\ [][(PullStep /\ enc.tag = "Block" /\ enc.block.data # <<>>) =>
            /\ lastPull' = Some(Head(enc.block.data))
            /\ enc' = EncBlock(MkBlock(Tail(enc.block.data), enc.block.zero, enc.block.rest))
         ]_vars

\* a second block of 254 literal bytes has just been opened with prefix 0xFF
C11_Witness ==
    /\ lastPull = Some(255)
    /\ enc.tag = "Block"
    /\ Len(enc.block.data) = 254
    /\ Len(wire) > 1

\* the stuffed vector of each example payload
Stuffed(P) ==
    IF P = <<>> THEN <<1, 0>>
    ELSE IF P = <<0>> THEN <<1, 1, 0>>
    ELSE IF P = <<0, 0>> THEN <<1, 1, 1, 0>>
    ELSE IF P = <<0, 17, 0>> THEN <<1, 2, 17, 1, 0>>
    ELSE <<5, 17, 34, 51, 68, 0>>

\* C12: fixture vectors. For each of the five example payloads the encoder
\* output is the stuffed vector, and feeding the stuffed vector returns no
\* error and ends with Ok(Some(len)) and data() equal to the payload.
C12_Fixtures ==
    Len(payload) <= 4 =>
        /\ lastPull = None => wire = Stuffed(payload)
        /\ res.tag \in {"NoCall", "Ok"}
        /\ FrameFed => (res = Ok(Some(Len(payload))) /\ DecoderData = payload)

\* the vector 01 02 11 01 00 has been decoded to 00 11 00
C12_Witness ==
    /\ FrameFed
    /\ wire = <<1, 2, 17, 1, 0>>
    /\ DecoderData = <<0, 17, 0>>

\* the 255-byte example encodes to n bytes that begin FE 03 04 and end
\* FE FF 02 01 00, and decoding them returns the payload
Example11(n) ==
    payload = generate_example_data(3) =>
        /\ lastPull = None =>
               /\ Len(wire) = n
               /\ SubSeq(wire, 1, 3) = <<254, 3, 4>>
               /\ SubSeq(wire, Len(wire) - 4, Len(wire)) = <<254, 255, 2, 1, 0>>
        /\ FrameFed => (res = Ok(Some(255)) /\ DecoderData = payload)

\* C13 as stated: the encoding of the 255-byte example has exactly 258 bytes.
C13_Example11_258 == Example11(258)

\* C13: the 255-byte example encodes to exactly 257 bytes that begin
\* FE 03 04 and end FE FF 02 01 00, and decoding them returns the payload.
C13_Example11 == Example11(257)

\* the 255-byte example has been encoded and decoded
C13_Witness ==
    /\ FrameFed
    /\ payload = generate_example_data(3)
    /\ Len(wire) = 257
    /\ DecoderData = payload

\* the input the encoder has not passed yet
Remaining(s) ==
    IF s.tag = "End" THEN <<>>
    ELSE s.block.data \o (IF s.block.zero THEN <<0>> ELSE <<>>) \o s.block.rest

Zeros(w) == {i \in 1..Len(w) : w[i] = 0}

PullBound == Len(payload) + (Len(payload) \div 254) + 2

\* C14: the encoder is finite and single-pass. The terminator is returned
\* by pull number n + floor(n/254) + 2 at the latest, it is emitted once and
\* only when no input is left, each pull passes at most one input byte, and
\* every pull after the terminator returns None and changes nothing.
C14_FiniteSinglePass ==
    /\ [](/\ pulled >= PullBound => enc.tag = "End"
          /\ (enc.tag = "End" /\ lastPull # None) => pulled <= PullBound
          /\ Cardinality(Zeros(wire)) = (IF enc.tag = "End" THEN 1 ELSE 0)
          /\ Len(payload) - Len(Remaining(enc)) <= Len(wire)
          /\ Len(Remaining(enc)) <= Len(payload)
          /\ Remaining(enc) =
                 SubSeq(payload, Len(payload) - Len(Remaining(enc)) + 1, Len(payload))
          /\ lastPull = None => enc.tag = "End")
    /\ [][(PullStep /\ enc.tag # "End" /\ enc'.tag = "End") =>
            (Remaining(enc) = <<>> /\ lastPull' = Some(0))]_vars
    /\ [][(PullStep /\ enc.tag = "End") =>
            (lastPull' = None /\ wire' = wire /\ enc' = enc)]_vars

\* None has been returned three times after the terminator of a payload
\* that needed every pull of the bound
C14_Witness ==
    /\ lastPull = None
    /\ Len(wire) = PullBound
    /\ Len(payload) >= 255
    /\ pulled = Len(wire) + 3

----------------------------------------------------------------------------
(* Properties of the ADS131M08 checksum.                                   *)

\* the bits of a byte and of a byte sequence, most significant bit first
ByteBits(b) == [i \in 1..8 |-> (b \div (2 ^ (8 - i))) % 2]

RECURSIVE MsgBits(_)
MsgBits(d) == IF d = <<>> THEN <<>> ELSE ByteBits(Head(d)) \o MsgBits(Tail(d))

\* x^16 + x^12 + x^5 + 1, highest coefficient first
Generator == <<1, 0, 0, 0, 1, 0, 0, 0, 0, 0, 0, 1, 0, 0, 0, 0, 1>>

RECURSIVE PolyMod(_)
\* the remainder of the polynomial m divided by Generator over GF(2)
PolyMod(m) ==
    IF Len(m) < Len(Generator) THEN m
    ELSE PolyMod(Tail(IF m[1] = 1
                      THEN [i \in 1..Len(m) |->
                              IF i <= Len(Generator) THEN (m[i] + Generator[i]) % 2 ELSE m[i]]
                      ELSE m))

RECURSIVE BitsValue(_)
BitsValue(m) == IF m = <<>> THEN 0 ELSE 2 * BitsValue(SubSeq(m, 1, Len(m) - 1)) + m[Len(m)]

\* CRC-16 with polynomial 0x1021, initial value 0xFFFF, most significant bit
\* first, no final XOR: the message times x^16, its first 16 coefficients
\* inverted, reduced modulo the generator
Crc16Reference(d) ==
    LET m == MsgBits(d) \o [i \in 1..16 |-> 0]
    IN  BitsValue(PolyMod([i \in 1..Len(m) |-> IF i <= 16 THEN 1 - m[i] ELSE m[i]]))

\* C15: crc16 is CRC-16 with polynomial 0x1021, initial value 0xFFFF,
\* MSB-first, no final XOR. Either copy returns the reference checksum of
\* its input, a 16-bit value; the checksum of the empty sequence is 0xFFFF
\* and that of "123456789" is 0x29B1; both copies agree on every input.
C15_Crc16 ==
    /\ crc16_ccitt_const(call.data) = frame_crc16_ccitt_const(call.data)
    /\ ret.fn \in {"crc16_ccitt_const", "frame::crc16_ccitt_const"} =>
           /\ ret.word = Some(Crc16Reference(call.data))
           /\ ret.word[1] \in 0..65535
           /\ call.data = <<>> => ret.word = Some(65535)
           /\ call.data = CheckString => ret.word = Some(10673)

\* the checksum of a three-byte input with its top bits set has been taken
C15_Witness ==
    /\ ret.fn = "crc16_ccitt_const"
    /\ call.data = <<255, 128, 165>>
    /\ ret.word = Some(Crc16Reference(call.data))

----------------------------------------------------------------------------
(* Properties of the ADS131M08 frames.                                     *)

\* a word in its slot: big-endian in the first two bytes, then a zero pad
Slot(w) == <<w \div 256, w % 256, 0>>

\* the frame of the given words: their slots, then the slot of the checksum
\* of all bytes before it
WellFormed(words) ==
    LET RECURSIVE Slots(_)
        Slots(ws) == IF ws = <<>> THEN <<>> ELSE Slot(Head(ws)) \o Slots(Tail(ws))
    IN  Slots(words) \o Slot(crc16_ccitt_const(Slots(words)))

\* the words a builder call is to put in its frame
WordsOf(c) ==
    IF c.fn = "build_write_one" THEN <<WREG + 64 * c.addr, c.value>> ELSE <<c.value>>

Builders == {"build_short", "build_short_frame", "build_write_one"}
Parsers == {"get_verified_data", "frame::get_verified_data"}

\* C16: short and write-one frames are well formed. build_short(c) is
\* [hi(c), lo(c), 0, hi(k), lo(k), 0] and build_write_one(a, v) is the words
\* [wreg(a,1), v, k], big-endian with a zero pad byte, k the checksum of all
\* bytes before it; get_verified_data accepts the frame as built and returns
\* exactly the bytes of the words before the checksum.
C16_WellFormedFrames ==
    call.fn \in Builders =>
        /\ ret.fn \in Builders =>
               /\ ~ret.panicked
               /\ ret.bytes = WellFormed(WordsOf(call))
               /\ Len(ret.bytes) = BYTES_PER_WORD * (Len(WordsOf(call)) + 1)
               /\ flip = None => frame = ret.bytes
        /\ (ret.fn \in Parsers /\ flip = None) =>
               /\ ret.ok
               /\ ret.bytes = SubSeq(frame, 1, Len(frame) - BYTES_PER_WORD)
               /\ ret.bytes \o SubSeq(frame, Len(frame) - 2, Len(frame))
                      = WellFormed(WordsOf(call))

\* a write-one frame for register 127 has been built, sent and accepted
C16_Witness ==
    /\ call.fn = "build_write_one"
    /\ call.addr = 127
    /\ call.value = 32768
    /\ flip = None
    /\ ret.fn = "get_verified_data"
    /\ ret.bytes = <<127, 192, 0, 128, 0, 0>>

\* C17: frame parsing. get_verified_data(buf) returns Ok(data), data being
\* buf without its last word, exactly when the big-endian value of the first
\* two bytes of the last word is crc16(data); otherwise it returns
\* CrcMismatch, which carries no byte of the frame.
C17_FrameParsing ==
    (ret.fn \in Parsers /\ Len(frame) >= BYTES_PER_WORD) =>
        LET data == SubSeq(frame, 1, Len(frame) - BYTES_PER_WORD)
            received == 256 * frame[Len(frame) - 2] + frame[Len(frame) - 1]
        IN  /\ ~ret.panicked
            /\ ret.ok <=> received = crc16_ccitt_const(data)
            /\ ret.ok => (ret.bytes = data /\ ret.err = "none")
            /\ ~ret.ok => (ret.err = "CrcMismatch" /\ ret.bytes = <<>>)

\* a received frame with a byte-swapped checksum has been rejected
C17_Witness ==
    /\ call.fn = "receive"
    /\ flip = None
    /\ Len(frame) = 9
    /\ ret.fn = "get_verified_data"
    /\ ret.err = "CrcMismatch"
    /\ 256 * frame[8] + frame[7] = crc16_ccitt_const(SubSeq(frame, 1, 6))

\* the flipped bit lies in the data portion of the frame
DataBitFlipped ==
    /\ flip # None
    /\ Len(frame) >= BYTES_PER_WORD
    /\ flip[1] < 8 * (Len(frame) - BYTES_PER_WORD)

\* C18: single-bit error detection. If get_verified_data accepts a frame,
\* then with any single bit of its data portion flipped it returns
\* CrcMismatch.
C18_SingleBitError ==
    (ret.fn \in Parsers /\ DataBitFlipped /\ get_verified_data(FlipBit(frame, flip[1])).ok) =>
        (~ret.ok /\ ret.err = "CrcMismatch")

\* a received two-word frame with a right checksum was hit in its last data
\* bit and rejected
C18_Witness ==
    /\ call.fn = "receive"
    /\ get_verified_data(call.data).ok
    /\ Len(call.data) = 9
    /\ flip = Some(47)
    /\ ret.fn = "get_verified_data"
    /\ ret.err = "CrcMismatch"

----------------------------------------------------------------------------
(* Properties of the ADS131M08 command words.                              *)

\* the call's arguments meet the preconditions of xreg
ValidArgs == call.addr < 128 /\ call.n >= 1 /\ call.n <= 64

OpcodeOf(fn) == IF fn = "rreg" THEN RREG ELSE WREG

C20_PreconditionsEnforced ==
    /\ (ret.fn \in {"rreg", "wreg"} /\ ~ValidArgs) =>
           (ret.panicked /\ ret.word = None)
    /\ (ret.fn = "build_write_one" /\ call.addr >= 128) =>
           (ret.panicked /\ ret.bytes = <<>> /\ frame = <<>>)

----------------------------------------------------------------------------
(* Properties of the ADS131M08 driver operations.                          *)

\* the operations that make one transport call and have a body after it
TransportOps == {"reset_device_start", "reset_device_complete", "standby",
                 "wakeup", "read_adc_data"}

\* the transport call of the most recent operation returned an error
TransportFailed == spi.log # <<>> /\ spi.result \in SpiErrors

\* C21: when the transport call of reset_device_start, reset_device_complete,
\* standby, wakeup or read_adc_data returns an error, the operation returns
\* that error wrapped as a transport error, and it has made exactly one
\* transport call.
C21_TransportFailureAborts ==
    (call.fn \in TransportOps /\ TransportFailed) =>
        /\ ret = RetSpi(call.fn, spi.result)
        /\ Len(spi.log) = 1

C21_Witness ==
    /\ call.fn = "reset_device_complete"
    /\ spi.result = "ModeFault"
    /\ ret.err = "Spi"

\* a frame of one command word followed by the checksum word of that word
CommandFrame(command) ==
    LET w == to_be_bytes(command) \o <<0>>
    IN  w \o to_be_bytes(Crc16Reference(w)) \o <<0>>

\* C22: reset_device_start makes exactly one transport write and no read;
\* the bytes written are a normal frame of 30 bytes whose first word is the
\* RESET command 0x0011; it returns Ok exactly when the write succeeds.
C22_ResetStart ==
    call.fn = "reset_device_start" =>
        /\ Len(spi.log) = 1
        /\ spi.log[1].op = "write"
        /\ Len(spi.log[1].bytes) = 30
        /\ SubSeq(spi.log[1].bytes, 1, 3) = <<0, 17, 0>>
        /\ ret.ok <=> spi.result = "Ok"

\* the response word of a short response
ResponseWord(response) == from_be_bytes(SubSeq(response, 1, 2))

\* C23: reset_device_complete sends one short NULL frame through a
\* full-duplex transfer; when the transport succeeds it returns Ok if the
\* response word is 0xFF20 | 8 = 0xFF28, and the reset failure otherwise.
C23_ResetComplete ==
    call.fn = "reset_device_complete" =>
        /\ spi.log = <<SpiCall("transfer_in_place", CommandFrame(NULL))>>
        /\ spi.result = "Ok" =>
              IF ResponseWord(spi.response) = 65320
              THEN ret = RetUnit(call.fn)
              ELSE ret = RetKind(call.fn, "ResetError")

\* C24: lock_registers (unlock_registers) sends a short LOCK (UNLOCK) frame
\* and then reads the STATUS register; when the transport succeeds it
\* returns Ok or the lock failure, by the lock bit of the status.
C24_LockUnlock ==
    call.fn \in {"lock_registers", "unlock_registers"} =>
        /\ spi.log # <<>>
        /\ spi.log[1].bytes =
              CommandFrame(IF call.fn = "lock_registers" THEN LOCK ELSE UNLOCK)
        /\ spi.result = "Ok" =>
              (ret = RetUnit(call.fn) \/ ret = RetKind(call.fn, "LockError"))

\* C25: a register write sends the write-one frame and reads the register
\* back; when the transport succeeds it returns Ok or the write failure, by
\* the value read back.
C25_WriteReadBack ==
    call.fn = "write_single_register" =>
        /\ spi.log # <<>>
        /\ spi.log[1] = SpiCall("write", build_write_one(profile, call.addr, call.value).buf)
        /\ spi.result = "Ok" =>
              (ret = RetUnit(call.fn) \/ ret = RetKind(call.fn, "WriteError"))

TwosComplement24(b) ==
    LET u == b[1] * 65536 + b[2] * 256 + b[3]
    IN  IF u >= 2 ^ 23 THEN u - 2 ^ 24 ELSE u

\* the trailing checksum word of a 30-byte response is that of its data
ResponseVerifies(response) ==
    /\ Len(response) = 30
    /\ from_be_bytes(SubSeq(response, 28, 29)) = crc16_ccitt_const(SubSeq(response, 1, 27))

\* C27: when the transfer succeeds and the trailing checksum of the 30-byte
\* response verifies, read_adc_data sets channel i of 0..7 to the 24-bit
\* two's complement value of response bytes 3(i+1) .. 3(i+1)+2, most
\* significant byte first; the response word and the checksum word are
\* stored in no channel.
C27_ChannelAcquisition ==
    (call.fn = "read_adc_data" /\ spi.result = "Ok" /\ ResponseVerifies(spi.response)) =>
        /\ ret = RetUnit(call.fn)
        /\ Len(channels) = 8
        /\ \A i \in 0..7 :
              /\ channels[i + 1] =
                    TwosComplement24(SubSeq(spi.response, 3 * (i + 1) + 1, 3 * (i + 1) + 3))
              /\ channels[i + 1] \in -(2 ^ 23)..(2 ^ 23 - 1)

C27_Witness ==
    /\ call.fn = "read_adc_data"
    /\ ret.ok
    /\ channels[3] = 2 ^ 23 - 1
    /\ channels[4] = -(2 ^ 23)
    /\ channels[5] = -1

----------------------------------------------------------------------------
(* Properties of the P3T1755 driver.                                       *)

\* the register reads and the register writes of the driver
ReadOps == {"read_config", "read_t_low", "read_t_high", "read_temperature"}
WriteOps == {"write_config", "write_t_low", "write_t_high"}

\* this step is a call of a register read
ReadStep == call'.fn \in ReadOps /\ <<call, ret, p3t, i2c>>' # <<call, ret, p3t, i2c>>

\* the kinds of the operations of a transaction, and the bytes of its writes
Kinds(ops) == [k \in 1..Len(ops) |-> ops[k].kind]

\* C28: a register read sends only a Read when the most recent successful
\* register access (read or write) was to the same register, and otherwise a
\* Write of the register's pointer byte followed by a Read; the first
\* access after construction writes the pointer; every access goes to the
\* configured address.
C28_PointerLatching ==
    /\ [][ReadStep =>
             IF i2c.accessed = Some(call'.addr)
             THEN Kinds(i2c'.ops) = <<"Read">>
             ELSE /\ Kinds(i2c'.ops) = <<"Write", "Read">>
                  /\ i2c'.ops[1].bytes = <<call'.addr>>]_vars
    /\ [][(i2c.ops = <<>> /\ call'.fn \in ReadOps \cup WriteOps) =>
             (i2c'.ops[1].kind = "Write" /\ i2c'.ops[1].bytes = <<call'.addr>>)]_vars
    /\ [](call.fn \in ReadOps \cup WriteOps => i2c.addr = p3t.addr)

C28_Witness ==
    /\ call.fn = "read_t_high"
    /\ Kinds(i2c.ops) = <<"Read">>
    /\ ret.ok
    /\ i2c.addr = 95

\* C29: alert::process reads one byte at address 0x0C; it returns Ok(None)
\* when the address is not acknowledged, the error for any other bus error,
\* Ok(None) when byte >> 1 is outside 0x40..=0x5F, and otherwise Ok(Some) of
\* an alert whose address is byte >> 1 and whose condition is over
\* temperature exactly when the lowest bit is 1; the address bits of every
\* alert returned are valid.
C29_AlertProcess ==
    call.fn = "alert::process" =>
        /\ i2c.addr = 12
        /\ i2c.ops = <<OperationRead(1)>>
        /\ i2c.result = "NoAcknowledge(Address)" => (ret.ok /\ ret.word = None)
        /\ i2c.result \in I2cErrors \ {"NoAcknowledge(Address)"} =>
              (~ret.ok /\ ~ret.panicked /\ ret.err = i2c.result)
        /\ i2c.result = "Ok" =>
              /\ ret.ok
              /\ (i2c.data[1] \div 2) \notin 64..95 => ret.word = None
              /\ (i2c.data[1] \div 2) \in 64..95 =>
                    /\ ret.word # None
                    /\ Alert_address(ret.word[1]) = i2c.data[1] \div 2
                    /\ Alert_condition(ret.word[1]) = "OverTemperature"
                          <=> i2c.data[1] % 2 = 1
                    /\ Alert_condition(ret.word[1])
                          \in {"OverTemperature", "UnderTemperature"}
        /\ ret.word # None => Alert_address(ret.word[1]) \in 64..95

C29_Witness ==
    /\ call.fn = "alert::process"
    /\ ret.word = Some(145)
    /\ Alert_address(ret.word[1]) = 72
    /\ Alert_condition(ret.word[1]) = "OverTemperature"

\* twelve bits as a two's complement number
TwosComplement12(u) == IF u >= 2048 THEN u - 4096 ELSE u

\* C30: for every raw value in -2048..=2047, from_regs(to_regs(t)) has the
\* raw value of t; to_regs(t) is the big-endian encoding of raw << 4, with
\* the low four bits zero and without overflow; from_regs ignores the low
\* four bits of the second byte.
C30_TemperatureRoundTrip ==
    /\ ret.fn = "Temperature::to_regs" =>
          /\ Len(ret.bytes) = 2
          /\ ret.bytes[1] * 256 + ret.bytes[2] = (call.value * 16) % 65536
          /\ call.value * 16 \in -32768..32767
          /\ ret.bytes[2] % 16 = 0
    /\ (ret.fn = "Temperature::from_regs" /\ frame # <<>>) =>
          (call.data = frame /\ ret.word = Some(call.value))
    /\ ret.fn = "Temperature::from_regs" =>
          ret.word = Some(TwosComplement12(call.data[1] * 16 + call.data[2] \div 16))

C30_Witness ==
    /\ ret.fn = "Temperature::from_regs"
    /\ frame = <<245, 128>>
    /\ call.value = -168
    /\ ret.word = Some(-168)


\* a raw value of the valid range
ValidRaw == Temperature_MIN..Temperature_MAX

\* C31: every Temperature a constructor returns (from_regs on any two
\* bytes, from_raw, saturating_from_raw, from_degrees_celsius on any i8,
\* from_centi_degrees_celsius on any i16) has its raw value in -2048..=2047;
\* from_raw returns None exactly for a raw value outside the range, and
\* saturating_from_raw clamps to MIN and MAX.
C31_TemperatureRange ==
    /\ (ret.fn \in Constructors /\ ret.word # None) => ret.word[1] \in -2048..2047
    /\ ret.fn = "Temperature::raw" => (ret.word[1] \in -2048..2047 /\ ret.word[1] = call.value)
    /\ ret.fn = "Temperature::from_raw" =>
          ret.word = IF call.value \in -2048..2047 THEN Some(call.value) ELSE None
    /\ ret.fn = "Temperature::saturating_from_raw" =>
          ret.word = Some(IF call.value < -2048 THEN -2048
                          ELSE IF call.value > 2047 THEN 2047 ELSE call.value)

C31_Witness ==
    /\ ret.fn = "Temperature::saturating_from_raw"
    /\ call.value = -32768
    /\ ret.word = Some(-2048)

\* x / y rounded toward zero, for y > 0: the integer q of the same sign as x
\* with |q| * y <= |x| < (|q| + 1) * y
IsQuotient(q, x, y) ==
    LET ax == IF x < 0 THEN -x ELSE x
        aq == IF q < 0 THEN -q ELSE q
    IN  /\ aq * y <= ax
        /\ ax < (aq + 1) * y
        /\ (q > 0 => x > 0) /\ (q < 0 => x < 0)

\* C32: for every valid Temperature, degrees_celsius() is floor(raw / 16) and
\* fits in i8, centi_degrees_celsius() is raw * 625 / 100 rounded toward zero
\* and fits in i16; for every i16 c, from_centi_degrees_celsius(c) has the raw
\* value clamp(c * 16 / 100 rounded toward zero, -2048, 2047).
C32_UnitConversions ==
    /\ ret.fn = "Temperature::degrees_celsius" =>
          /\ call.value \in ValidRaw
          /\ ret.word[1] \in -128..127
          /\ ret.word[1] * 16 <= call.value /\ call.value < (ret.word[1] + 1) * 16
    /\ ret.fn = "Temperature::centi_degrees_celsius" =>
          /\ call.value \in ValidRaw
          /\ ret.word[1] \in -32768..32767
          /\ IsQuotient(ret.word[1], call.value * 625, 100)
    /\ ret.fn = "Temperature::from_centi_degrees_celsius" =>
          /\ ret.word # None
          /\ IF call.value * 16 >= 2047 * 100 THEN ret.word[1] = 2047
             ELSE IF call.value * 16 <= -2048 * 100 THEN ret.word[1] = -2048
             ELSE IsQuotient(ret.word[1], call.value * 16, 100)

C32_Witness ==
    /\ ret.fn = "Temperature::centi_degrees_celsius"
    /\ call.value = -168
    /\ ret.word = Some(-1050)


\* bit k of the byte x
BitOf(x, k) == (x \div (2 ^ k)) % 2

\* the bit positions of each field of the configuration register
FieldBits(field) ==
    CASE field = "shutdown_mode" -> {0}
      [] field = "thermostat_mode" -> {1}
      [] field = "polarity" -> {2}
      [] field = "fault_queue" -> {3, 4}
      [] field = "conversion_time" -> {5, 6}
      [] field = "one_shot" -> {7}

\* C33: for every 8-bit Config and every setter, the matching getter returns
\* the value just set, every other getter returns what it returned before,
\* and no bit outside the setter's field changes (shutdown bit 0, thermostat
\* bit 1, polarity bit 2, fault queue bits 3-4, conversion time bits 5-6,
\* one-shot bit 7).
C33_ConfigFields ==
    ret.fn \in ConfigFields =>
        /\ ret.word[1] \in Byte
        /\ Config_get(ret.word[1], ret.fn) = call.value
        /\ \A other \in ConfigFields \ {ret.fn} :
              Config_get(ret.word[1], other) = Config_get(call.data[1], other)
        /\ \A k \in (0..7) \ FieldBits(ret.fn) :
              BitOf(ret.word[1], k) = BitOf(call.data[1], k)

C33_Witness ==
    /\ ret.fn = "fault_queue"
    /\ call.data = <<255>>
    /\ call.value = 8
    /\ ret.word = Some(239)

----------------------------------------------------------------------------
(* Properties of the TCA9535 driver.                                       *)

\* the reads and writes of the driver with the first register of their pair
PairReads == [read_input |-> 0, read_output |-> 2,
              read_polarity_inversion |-> 4, read_configuration |-> 6]
PairWrites == [write_output |-> 2, write_polarity_inversion |-> 4,
               write_configuration |-> 6]

\* the write operation of the pair a read operation reads
WriteOf(fn) ==
    CASE fn = "read_output" -> "write_output"
      [] fn = "read_polarity_inversion" -> "write_polarity_inversion"
      [] fn = "read_configuration" -> "write_configuration"
      [] OTHER -> "none"

\* C34: each read_* makes exactly one write_read of the one-byte start
\* register (input 0x00, output 0x02, polarity 0x04, configuration 0x06) and
\* assembles the two bytes returned least significant byte first; each
\* write_* makes exactly one write of [start register, low byte, high
\* byte]; on a device that stores what is written, write_X(v) followed by
\* read_X() returns v; bus errors are returned unchanged.
C34_RegisterPairs ==
    /\ [](call.fn \in DOMAIN PairReads =>
            /\ i2c.addr = tca.addr
            /\ i2c.ops = <<OperationWrite(<<PairReads[call.fn]>>), OperationRead(2)>>
            /\ IF i2c.result = "Ok"
               THEN ret.ok /\ ret.word = Some(i2c.data[1] + 256 * i2c.data[2])
               ELSE ~ret.ok /\ ~ret.panicked /\ ret.err = i2c.result)
    /\ [](call.fn \in DOMAIN PairWrites =>
            /\ i2c.addr = tca.addr
            /\ i2c.ops = <<OperationWrite(<<PairWrites[call.fn], call.value % 256,
                                            call.value \div 256>>)>>
            /\ IF i2c.result = "Ok"
               THEN ret.ok
               ELSE ~ret.ok /\ ~ret.panicked /\ ret.err = i2c.result)
    /\ [][(call.fn \in DOMAIN PairWrites /\ ret.ok
           /\ call.fn = WriteOf(call'.fn) /\ ret'.ok)
          => ret'.word = Some(call.value)]_vars

C34_Witness ==
    /\ call.fn = "read_configuration"
    /\ ret.word = Some(4660)
    /\ i2c.data = <<52, 18>>
    /\ i2c.addr = 39

----------------------------------------------------------------------------
(* Properties of the assertions of the frame writers.                      *)

\* the callers of write_command_const
CommandWriters == {"build_short", "build_short_frame", "build_write_one",
                   "build_normal", "build_normal_frame", "read_adc_data"}

\* C35: every call of write_command_const made by build_short,
\* build_short_frame, build_write_one, build_normal, build_normal_frame and
\* read_adc_data satisfies the asserted buf.len() == (words.len() + 1) *
\* BYTES_PER_WORD, and every call of write_word_const satisfies
\* buf.len() >= (word_idx + 1) * BYTES_PER_WORD: with the register
\* addresses in range, no caller stops at an assertion in any build.
C35_AssertionsHold ==
    ret.fn \in CommandWriters => ~ret.panicked

----------------------------------------------------------------------------
(* Properties of the channel array of read_adc_data.                       *)

\* C36: read_adc_data leaves the channel array of the caller untouched on
\* failure: when the transfer returns a transport error or the trailing
\* checksum of the response does not match, the call returns an error and no
\* element of channels has been modified; on success all 8 elements are
\* overwritten with the values of the response.
C36_ChannelsOnFailure ==
    [][(call'.fn = "read_adc_data" /\ spi'.log # <<>>) =>
          IF spi'.result = "Ok" /\ ResponseVerifies(spi'.response)
          THEN /\ ret'.ok
               /\ \A i \in 0..7 :
                     channels'[i + 1] =
                        TwosComplement24(SubSeq(spi'.response, 3 * (i + 1) + 1,
                                                3 * (i + 1) + 3))
          ELSE /\ ~ret'.ok /\ ~ret'.panicked
               /\ ret'.err = (IF spi'.result = "Ok" THEN "CrcMismatch" ELSE "Spi")
               /\ channels' = channels]_vars

\* an acquisition has failed its checksum after an earlier one succeeded
C36_Witness ==
    /\ call.fn = "read_adc_data"
    /\ ret.err = "CrcMismatch"
    /\ spi.response[4] = 255
    /\ channels[3] = 2 ^ 23 - 1
    /\ channels[4] = -(2 ^ 23)

----------------------------------------------------------------------------
(* Properties of the pointer latch of the P3T1755 driver.                  *)

\* C37: in every reachable state, also after a transaction that failed
\* part-way (the pointer write accepted by the sensor, the following read or
\* data write failed), latched_reg == Some(r) implies that the pointer
\* register of the sensor selects r, so that a read that skips the pointer
\* write never returns the contents of another register.
C37_LatchCoherence ==
    p3t.latched_reg # None => p3t.latched_reg = Some(i2c.pointer)

----------------------------------------------------------------------------
(* Properties of the results of the decoder.                               *)

\* C38: whenever feed returns Ok(Some(n)), n is data().len() at that moment:
\* the completion value and the slice returned by data() describe the same
\* frame.
C38_ReportedLength ==
    (res.tag = "Ok" /\ res.val # None) => res.val = Some(Len(DecoderData))

\* C39: a truncated frame is never reported as complete. After feed has
\* returned BufferTooSmall for a byte of a frame, the feed of the
\* terminating 0x00 of that frame does not return Ok(Some(_)), and a frame
\* longer than the destination buffer is never presented to the caller as
\* a decoded frame.
C39_TruncatedFrame ==
    /\ []((FrameFed /\ Len(payload) > Len(buf)) => res.val = None)
    /\ [][(res = Err("BufferTooSmall") /\ FeedOf(0)) => res'.val = None]_vars

\* C40: decoder state bounds. For every sequence of input bytes feed never
\* underflows (n - 1 and i - 1 are computed for n >= 1 and i >= 1 only)
\* nor stores outside the buffer, and the remaining counter is within
\* 0..253 for Block and within 0..254 for PartialBlock.
C40_StateBounds ==
    /\ dstate.tag \in {"Idle", "Block", "PartialBlock"}
    /\ dstate.tag = "Block" => dstate.n \in 0..253
    /\ dstate.tag = "PartialBlock" => dstate.n \in 0..254
    /\ pos \in 0..Len(buf)

\* a full block has been counted down to its last byte
C40_Witness ==
    /\ dstate = PartialBlock(0)
    /\ inp = 254
    /\ res = Err("BufferTooSmall")

============================================================================
